---- MODULE Spec2Model ----
(***************************************************************************)
(* Model of brpylib (src/brpylib/brpylib.py, version 2.0.1):               *)
(*   - NsxFile.savesubsetnsx, the NSx subset writer   (SpecSubset)         *)
(*   - NsxFile.getdata, the NSx extraction            (SpecNsx)            *)
(*   - NevFile.getdata, the NEV bulk extraction       (SpecNev)            *)
(*   - one call of either NSx method on an open file  (SpecCall)           *)
(*   - a series of calls on one open NSx reader, with the data file as     *)
(*     bytes and the file position kept between calls (SpecReader)         *)
(*   - NevFile.openfile, close and the with-block     (SpecOpen)           *)
(*   - the headers of an open NSx or NEV reader       (SpecHeaders)        *)
(*   - openfilecheck of brMiscFxns.py                 (SpecCheck)          *)
(* Every operation is translated from the Python source.  Sample data is   *)
(* not stored by value: a sample is named by where it sits in the source   *)
(* file (packet, row, column), so that any row that is dropped, repeated   *)
(* or taken from another column is visible.                                *)
(***************************************************************************)
EXTENDS Integers, Sequences, FiniteSets, TLC

(***************************************************************************)
(* Bounds of the model.                                                    *)
(***************************************************************************)
\* data packets in a source NSx file: 1..MaxPkts
MaxPkts == 2
\* sample rows in a source NSx file, over all its packets: 0..MaxRows
MaxRows == 5
\* single-sample records in a PTP source file: 1..MaxPtp
MaxPtp == 3
\* packets in a NEV file: 0..MaxNevPkts
MaxNevPkts == 3
\* output files savesubsetnsx may open before the model stops following it
MaxFiles == 4
\* DATA_PAGING_SIZE is 1024**3 in the source (brpylib.py:64).  The paging
\* arithmetic depends only on its ratio to the row size, so the model pages
\* by this many bytes instead.
DATA_PAGING_SIZE == 8
\* bytes by which the scaled DATA_FILE_SIZE_MIN exceeds the largest header
MinRoom == 12

(***************************************************************************)
(* Program constants.                                                      *)
(***************************************************************************)
NSX_BASIC_HEADER_BYTES_22 == 314
NSX_EXT_HEADER_BYTES_22 == 66
DATA_BYTE_SIZE == 2
TIMESTAMP_NULL_21 == 0
DIGITAL_PACKET_ID == 0
NEURAL_PACKET_ID_MIN == 1
NEURAL_PACKET_ID_MAX == 16384
COMMENT_PACKET_ID == 65535
VIDEO_SYNC_PACKET_ID == 65534
TRACKING_PACKET_ID == 65533
BUTTON_PACKET_ID == 65532
CONFIGURATION_PACKET_ID == 65531
CHARSET_ANSI == 0
CHARSET_UTF == 1
CHARSET_ROI == 255
\* DATA_FILE_SIZE_MIN is 10 MiB in the source (brpylib.py:65): larger than
\* any header plus a packet header.  The model keeps that relation at scale.
DATA_FILE_SIZE_MIN ==
    NSX_BASIC_HEADER_BYTES_22 + NSX_EXT_HEADER_BYTES_22 * 2 + MinRoom

(***************************************************************************)
(* Python helpers.                                                         *)
(***************************************************************************)
Min(a, b) == IF a < b THEN a ELSE b
Max(a, b) == IF a > b THEN a ELSE b

\* a // b of Python for b > 0 (floor division; TLA+'s \div floors as well)
FloorDiv(a, b) == a \div b

\* math.ceil(a / b) for a >= 0, b > 0
CeilDiv(a, b) == (a + b - 1) \div b

Range(s) == {s[i] : i \in DOMAIN s}

\* sorted(list(S)) for a set of integers
RECURSIVE SortedList(_)
SortedList(S) ==
    IF S = {} THEN <<>>
    ELSE LET m == CHOOSE x \in S : \A y \in S : x <= y
         IN <<m>> \o SortedList(S \ {m})

\* list.index(x): 0-based position of the first occurrence
ListIndex(s, x) == (CHOOSE i \in DOMAIN s : s[i] = x /\ \A j \in 1..(i-1) : s[j] # x) - 1

\* a[lo:hi] of a Python sequence of length n: the half-open range of
\* positions it selects, <<from, to>> with from <= to
SliceBound(n, i) == IF i < 0 THEN Max(n + i, 0) ELSE Min(i, n)
Slice(n, lo, hi) ==
    LET a == SliceBound(n, lo)
        b == SliceBound(n, hi)
    IN IF a < b THEN <<a, b>> ELSE <<a, a>>

\* numpy's astype(np.uint32) of a Python int.  A negative v wraps to 2^32 + v;
\* that value exceeds the model checker's integers, so the wrapped value is
\* represented by v itself (negative, hence different from every count).
AsUint32(v) == v

\* Each specification follows one call on one open file.
VARIABLES
    src,    \* the open file (NsxFile or NevFile): its headers and packets
    req,    \* the arguments of the call
    pc,     \* the position in the called method
    out,    \* savesubsetnsx: the output files, in the order they were opened;
            \* getdata: the returned dictionary
    loc     \* the locals of savesubsetnsx

vars == <<src, req, pc, out, loc>>

(***************************************************************************)
(* NSx files.  A source file is its FileSpec, its channel ids in header    *)
(* order, its data packets [ts, n] and its Period.  A sample of the source *)
(* is named by (packet p, row r, column c); a written run of rows is       *)
(* [p, from, to, cols]: the rows from..to-1 of packet p, each holding the  *)
(* source columns cols[1], cols[2], ... (0-based column numbers).          *)
(***************************************************************************)
FileSpecs == {"2.1", "2.3"}

\* the channel-id lists a source header can hold: distinct ids, in
\* ascending order or not
ChannelLists == {<<1>>, <<1, 2>>, <<2, 1>>}

RECURSIVE SumSeq(_)
SumSeq(s) == IF s = <<>> THEN 0 ELSE Head(s) + SumSeq(Tail(s))

\* the data packets [ts, n] of a source file; a spec 2.1 file is one
\* headerless run of rows.  The NSP is known to write packets of 0 points.
PacketLists(spec) ==
    LET Ns == {ns \in UNION {[1..k -> 0..MaxRows] :
                               k \in 1..(IF spec = "2.1" THEN 1 ELSE MaxPkts)} :
                 SumSeq(ns) <= MaxRows}
    IN {[i \in DOMAIN ns |->
            [ts |-> IF spec = "2.1" THEN TIMESTAMP_NULL_21 ELSE 3 + 10 * (i - 1),
             n |-> ns[i]]] : ns \in Ns}

Periods == {1, 2}

SourceFiles ==
    UNION {{[spec |-> sp, ids |-> ids, pkts |-> pk, period |-> per] :
              ids \in ChannelLists, pk \in PacketLists(sp), per \in Periods} :
           sp \in FileSpecs}

\* elec_ids as passed: 'all' or a list (ids may repeat, be out of order or
\* be unknown to the file)
ElecRequests ==
    {[all |-> TRUE, list |-> <<>>]} \cup
    {[all |-> FALSE, list |-> l] :
        l \in {<<1>>, <<2>>, <<1, 2>>, <<2, 1>>, <<1, 1>>, <<3>>, <<3, 2>>}}

\* file_size / file_time_s as passed.  "time": val is file_time_s times
\* TimeStampResolution (the requested duration in timestamp ticks).
SizeRequests ==
    {[mode |-> "none", val |-> 0]} \cup
    {[mode |-> "size", val |-> v] : v \in {1, DATA_FILE_SIZE_MIN + 4}} \cup
    {[mode |-> "time", val |-> t] : t \in {1, 4, 6}}

Identity(n) == [i \in 1..n |-> i - 1]

HeaderItem(p, ts, npts) ==
    [kind |-> "H", p |-> p, ts |-> ts, npts |-> npts, from |-> 0, to |-> 0, cols |-> <<>>]
RowsItem(p, from, to, cols) ==
    [kind |-> "R", p |-> p, ts |-> 0, npts |-> 0, from |-> from, to |-> to, cols |-> cols]

\* bytes of the basic + extended headers of an output file
HeaderBytes(h) ==
    IF h.spec = "2.1" THEN 32 + 4 * Len(h.ids)
    ELSE NSX_BASIC_HEADER_BYTES_22 + NSX_EXT_HEADER_BYTES_22 * Len(h.ids)

ItemBytes(it) ==
    IF it.kind = "H" THEN 9 ELSE (it.to - it.from) * Len(it.cols) * DATA_BYTE_SIZE

RECURSIVE BodyBytes(_)
BodyBytes(b) == IF b = <<>> THEN 0 ELSE ItemBytes(Head(b)) + BodyBytes(Tail(b))

\* file.tell() of an output file positioned at its end
Tell(f) == HeaderBytes(f.hdr) + BodyBytes(f.body)

\* byte offset of item k of a file
ItemOffset(f, k) == HeaderBytes(f.hdr) + BodyBytes(SubSeq(f.body, 1, k - 1))

\* file.write(rows): an empty array writes nothing
WriteRows(f, p, rng, base, cols) ==
    IF rng[1] = rng[2] THEN f
    ELSE [f EXCEPT !.body = Append(@, RowsItem(p, base + rng[1], base + rng[2], cols))]

\* file.seek(pos, 0); file.write(uint32 v).  The four bytes land on the
\* NumDataPoints field of a packet header, or else on other bytes of the
\* file (or past its end), which leaves a file that is no longer well formed.
PatchAt(f, pos, v) ==
    LET hit == {k \in DOMAIN f.body : f.body[k].kind = "H" /\ ItemOffset(f, k) + 5 = pos}
    IN IF hit = {} THEN [f EXCEPT !.corrupt = TRUE]
       ELSE LET k == CHOOSE k \in hit : TRUE
            IN [f EXCEPT !.body[k].npts = v]

\* the requested ids that exist, as they were passed
RequestedInFile(elec_ids, all_elec_ids) ==
    SelectSeq(elec_ids, LAMBDA e : e \in Range(all_elec_ids))

(***************************************************************************)
(* check_dataelecid (brpylib.py:469-486): the sorted, duplicate-free list  *)
(* of the requested ids that exist in the file; <<>> stands for None.      *)
(***************************************************************************)
check_dataelecid(elec_ids, all_elec_ids) ==
    LET unique_elec_ids == Range(elec_ids)
        all == Range(all_elec_ids)
    IN IF ~(unique_elec_ids \subseteq all) /\ unique_elec_ids \cap all = {}
       THEN <<>>
       ELSE SortedList(unique_elec_ids \cap all)

\* check_filesize (brpylib.py:489-494)
check_filesize(file_size) ==
    IF file_size < DATA_FILE_SIZE_MIN THEN DATA_FILE_SIZE_MIN ELSE file_size

\* the columns taken by position in the request instead of by the position
\* of each id in the file
ElecIdIndicesByPosition(elec_ids, all_elec_ids) ==
    [i \in DOMAIN elec_ids |-> i - 1]

\* elec_id_indices = [all_elec_ids.index(x) for x in elec_ids] (brpylib.py:1443)
ElecIdIndices(elec_ids, all_elec_ids) ==
    [i \in DOMAIN elec_ids |-> ListIndex(all_elec_ids, elec_ids[i])]

\* the columns of a page after `if elec_id_indices: mm = mm[:, elec_id_indices]`
PageCols(elec_id_indices, channel_count) ==
    IF elec_id_indices # <<>> THEN elec_id_indices ELSE Identity(channel_count)

\* file_size as set by brpylib.py:1447-1472; 0 stands for None
FileSizing(r, spec, num_elecs, period) ==
    IF r.mode = "time"
    THEN FloorDiv(num_elecs * DATA_BYTE_SIZE * r.val, period)
         + (IF spec = "2.1" THEN 32 + 4 * num_elecs
            ELSE NSX_BASIC_HEADER_BYTES_22 + NSX_EXT_HEADER_BYTES_22 * num_elecs + 5)
    ELSE IF r.mode = "size" THEN check_filesize(r.val)
    ELSE 0

\* a subset header whose extended headers follow the electrode list in use
SubsetHeaderInListOrder(spec, elec_ids, all_elec_ids) ==
    [spec |-> spec,
     bih |-> IF spec = "2.1" THEN 0
             ELSE NSX_BASIC_HEADER_BYTES_22 + NSX_EXT_HEADER_BYTES_22 * Len(elec_ids),
     cc |-> Len(elec_ids), ids |-> elec_ids]

\* the header savesubsetnsx writes to the first output file (brpylib.py:1501-1534):
\* spec 2.1 lists elec_ids; spec 2.2+ copies the extended headers of the source,
\* in source order, whose ElectrodeID is in elec_ids
SubsetHeader(spec, elec_ids, all_elec_ids) ==
    IF spec = "2.1"
    THEN [spec |-> spec, bih |-> 0, cc |-> Len(elec_ids), ids |-> elec_ids]
    ELSE LET kept == SelectSeq(all_elec_ids, LAMBDA c : c \in Range(elec_ids))
         IN [spec |-> spec,
             bih |-> NSX_BASIC_HEADER_BYTES_22 + NSX_EXT_HEADER_BYTES_22 * Len(elec_ids),
             cc |-> Len(elec_ids), ids |-> kept]

NewFile(hdr) == [hdr |-> hdr, body |-> <<>>, open |-> TRUE, corrupt |-> FALSE]

\* mm_length: DATA_PAGING_SIZE rounded down to whole source rows (brpylib.py:1559)
MmLength(channel_count) ==
    LET datafile_datapt_size == channel_count * DATA_BYTE_SIZE
    IN (DATA_PAGING_SIZE \div datafile_datapt_size) * datafile_datapt_size

\* num_loops (brpylib.py:1562)
NumLoops(packet_pts, channel_count) ==
    CeilDiv(packet_pts * channel_count * DATA_BYTE_SIZE, MmLength(channel_count))

\* num_pts of page `loop` (brpylib.py:1568-1581)
PagePts(loop, num_loops, packet_pts, channel_count) ==
    LET dps == channel_count * DATA_BYTE_SIZE
        mm_length == MmLength(channel_count)
    IN IF loop = 0
       THEN IF num_loops = 1 THEN packet_pts ELSE mm_length \div dps
       ELSE IF loop = num_loops - 1
            THEN ((packet_pts * dps) % mm_length) \div dps
            ELSE mm_length \div dps

\* pts_can_add (brpylib.py:1599-1605 and 1675-1681)
PtsCanAdd(file_size, tell, num_elecs) ==
    FloorDiv(file_size - tell, num_elecs * DATA_BYTE_SIZE) + 1

NoLocals ==
    [elec_ids |-> <<>>, elec_id_indices |-> <<>>, num_elecs |-> 0, file_size |-> 0,
     file_num |-> 1, bytes_in_headers |-> 0, num_pts_header_pos |-> 0,
     curr_hdr_num_pts_pos |-> 0, pk |-> 1, timestamp |-> 0, packet_pts |-> 0,
     num_loops |-> 0, loop |-> 0, num_pts |-> 0, mm_len |-> 0, mm_base |-> 0,
     start_idx |-> 0, stop_idx |-> 0, pts_can_add |-> 0, packet_read_pts |-> 0,
     subset_file_pkt_pts |-> 0, result |-> "running", reopened |-> <<>>]

ChannelCount == Len(src.ids)
CurFile == out[Len(out)]

\* the first subset file <name>_<suffix>_000<ext> before the call, and what
\* the user types when asked to overwrite it
Prompts ==
    {[exists |-> FALSE, answer |-> ""], [exists |-> TRUE, answer |-> "y"],
     [exists |-> TRUE, answer |-> "n"]}

\* savesubsetnsx without the overwrite question
OverwriteAlways(r) == FALSE

\* brpylib.py:1481-1490: the call returns None when the first subset file
\* exists and the answer is not 'y'
OverwriteRefused(r) == r.exists /\ "y" # r.answer

InitSubset ==
    /\ src \in SourceFiles
    /\ req \in {[elec |-> e, mode |-> s.mode, val |-> s.val,
                  exists |-> p.exists, answer |-> p.answer] :
                  e \in ElecRequests, s \in SizeRequests, p \in Prompts}
    /\ pc = "start"
    /\ out = <<>>
    /\ loc = NoLocals

(***************************************************************************)
(* NsxFile.savesubsetnsx (brpylib.py:1404-1730), one action per stretch of *)
(* straight-line code.                                                     *)
(***************************************************************************)
\* brpylib.py:1422-1534: electrode checks, file sizing, the overwrite
\* question, first output file and its basic + extended headers.  out holds
\* the files the call has opened for writing.
SubsetBegin ==
    /\ pc = "start"
    /\ LET all_elec_ids == src.ids
           elec_ids == IF req.elec.all THEN all_elec_ids
                       ELSE check_dataelecid(req.elec.list, all_elec_ids)
           elec_id_indices == IF req.elec.all THEN <<>>
                              ELSE ElecIdIndices(elec_ids, all_elec_ids)
           num_elecs == Len(elec_ids)
           hdr == SubsetHeader(src.spec, elec_ids, all_elec_ids)
       IN IF elec_ids = <<>> \/ OverwriteRefused(req)
          THEN /\ pc' = "done"
               /\ loc' = [loc EXCEPT !.result = "None"]
               /\ out' = out
          ELSE /\ pc' = "while"
               /\ out' = <<NewFile(hdr)>>
               /\ loc' = [loc EXCEPT
                     !.elec_ids = elec_ids,
                     !.elec_id_indices = elec_id_indices,
                     !.num_elecs = num_elecs,
                     !.file_size = FileSizing(req, src.spec, num_elecs, src.period),
                     !.bytes_in_headers = hdr.bih,
                     !.num_pts_header_pos = hdr.bih + 5]
    /\ UNCHANGED <<src, req>>

\* the source position is at end of file (brpylib.py:1537)
AtEof == loc.pk > Len(src.pkts) \/ (src.spec = "2.1" /\ src.pkts[loc.pk].n = 0)

\* brpylib.py:1537, 1727-1730: the packet loop ends; close and return
SubsetFinish ==
    /\ pc = "while"
    /\ AtEof
    /\ out' = [out EXCEPT ![Len(out)].open = FALSE]
    /\ loc' = [loc EXCEPT !.result = "SUCCESS"]
    /\ pc' = "done"
    /\ UNCHANGED <<src, req>>

\* brpylib.py:1539-1564: read the next packet header, copy it, set the page loop
SubsetPacket ==
    /\ pc = "while"
    /\ ~AtEof
    /\ LET pkt == src.pkts[loc.pk]
           packet_pts == pkt.n
       IN IF src.spec # "2.1" /\ packet_pts = 0
          THEN \* continue
               /\ loc' = [loc EXCEPT !.pk = @ + 1, !.timestamp = pkt.ts,
                                     !.packet_pts = packet_pts]
               /\ UNCHANGED <<pc, out>>
          ELSE /\ out' = IF src.spec = "2.1" THEN out
                         ELSE [out EXCEPT ![Len(out)].body =
                                   Append(@, HeaderItem(loc.pk, pkt.ts, packet_pts))]
               /\ loc' = [loc EXCEPT
                     !.timestamp = IF src.spec = "2.1" THEN @ ELSE pkt.ts,
                     !.packet_pts = packet_pts,
                     !.num_loops = NumLoops(packet_pts, ChannelCount),
                     !.loop = 0,
                     !.packet_read_pts = 0,
                     !.subset_file_pkt_pts = 0]
               /\ pc' = "page"
    /\ UNCHANGED <<src, req>>

\* brpylib.py:1567-1606: shape and map one page, test whether the output
\* file is close to file_size
SubsetPage ==
    /\ pc = "page"
    /\ LET num_pts == PagePts(loc.loop, loc.num_loops, loc.packet_pts, ChannelCount)
           near == loc.file_size # 0
                   /\ (loc.file_size - Tell(CurFile)) < DATA_PAGING_SIZE
           pts_can_add == PtsCanAdd(loc.file_size, Tell(CurFile), loc.num_elecs)
       IN /\ loc' = [loc EXCEPT
                !.num_pts = num_pts,
                !.mm_len = num_pts,
                !.mm_base = loc.loop * (MmLength(ChannelCount)
                                          \div (ChannelCount * DATA_BYTE_SIZE)),
                !.start_idx = 0,
                !.pts_can_add = IF near THEN pts_can_add ELSE @,
                !.stop_idx = IF near THEN 0 + pts_can_add ELSE @]
          /\ pc' = IF near THEN "split" ELSE "write"
    /\ UNCHANGED <<src, req, out>>

\* the files after a split with the first file standing for the prior one
ClosePriorFirst(files, prior) ==
    [files EXCEPT ![1] = [prior EXCEPT !.open = FALSE]]

\* brpylib.py:1619-1666: the prior file is the file just written and closed
\* (prior_file_name = subset_file.name); it is opened again "rb+", read,
\* patched and closed
ClosePrior(files, prior) ==
    [files EXCEPT ![Len(files)] = [prior EXCEPT !.open = FALSE]]

\* brpylib.py:1609-1682: one pass of `while pts_can_add < num_pts`: fill the
\* current file, close it, open the next one with the copied headers and a
\* new packet header, patch NumDataPoints of the closed file
SubsetSplit ==
    /\ pc = "split"
    /\ loc.pts_can_add < loc.num_pts
    /\ Len(out) < MaxFiles
    /\ LET cols == PageCols(loc.elec_id_indices, ChannelCount)
           filled == WriteRows(CurFile, loc.pk,
                               Slice(loc.mm_len, loc.start_idx, loc.stop_idx),
                               loc.mm_base, cols)
           prior_file_pkt_pts == loc.subset_file_pkt_pts + loc.pts_can_add
           timestamp_new == loc.timestamp
                            + (loc.packet_read_pts + loc.pts_can_add) * src.period
           prior == IF src.spec = "2.1" THEN filled
                    ELSE PatchAt(filled, loc.num_pts_header_pos,
                                 AsUint32(prior_file_pkt_pts))
           next0 == NewFile(filled.hdr)
           next == IF src.spec = "2.1" THEN next0
                   ELSE [next0 EXCEPT !.body =
                           <<HeaderItem(loc.pk, AsUint32(timestamp_new),
                                        AsUint32(loc.num_pts - loc.pts_can_add))>>]
           pts_can_add == PtsCanAdd(loc.file_size, Tell(next), loc.num_elecs)
       IN /\ out' = Append(ClosePrior(out, prior), next)
          /\ loc' = [loc EXCEPT
                !.reopened = Append(@, Len(out)),
                !.num_pts_header_pos =
                    IF src.spec = "2.1" THEN @ ELSE loc.bytes_in_headers + 5,
                !.packet_read_pts = @ + loc.pts_can_add,
                !.start_idx = @ + loc.pts_can_add,
                !.num_pts = @ - loc.pts_can_add,
                !.file_num = @ + 1,
                !.subset_file_pkt_pts = 0,
                !.pts_can_add = pts_can_add,
                !.stop_idx = loc.start_idx + loc.pts_can_add + pts_can_add]
    /\ UNCHANGED <<src, req, pc>>

\* brpylib.py:1684-1691: write what is left of the page to the current file
SubsetWrite ==
    /\ \/ pc = "write"
       \/ pc = "split" /\ ~(loc.pts_can_add < loc.num_pts)
    /\ LET cols == PageCols(loc.elec_id_indices, ChannelCount)
       IN out' = [out EXCEPT ![Len(out)] =
                     WriteRows(@, loc.pk, Slice(loc.mm_len, loc.start_idx, loc.mm_len),
                               loc.mm_base, cols)]
    /\ loc' = [loc EXCEPT
          !.packet_read_pts = @ + loc.num_pts,
          !.subset_file_pkt_pts = @ + loc.num_pts,
          !.loop = @ + 1]
    /\ pc' = IF loc.loop + 1 = loc.num_loops THEN "pktEnd" ELSE "page"
    /\ UNCHANGED <<src, req>>

\* brpylib.py:1693-1725: after the pages of a packet: move the header
\* position, reposition the source, patch NumDataPoints of the packet header.
\* For spec 2.1 packet_pts is a float (true division, line 1541), so
\* datafile_pos is a float and datafile.seek raises TypeError.
SubsetPacketEnd ==
    /\ pc = "pktEnd"
    /\ IF src.spec = "2.1"
       THEN /\ pc' = "done"
            /\ loc' = [loc EXCEPT !.result = "TypeError"]
            /\ out' = out
       ELSE /\ pc' = "while"
            /\ loc' = [loc EXCEPT
                  !.curr_hdr_num_pts_pos = loc.num_pts_header_pos,
                  !.num_pts_header_pos =
                      @ + 4 + loc.subset_file_pkt_pts * loc.num_elecs * DATA_BYTE_SIZE + 5,
                  !.pk = @ + 1]
            /\ out' = [out EXCEPT ![Len(out)] =
                          PatchAt(@, loc.num_pts_header_pos,
                                  AsUint32(loc.subset_file_pkt_pts))]
    /\ UNCHANGED <<src, req>>

NextSubset ==
    \/ SubsetBegin
    \/ SubsetPacket
    \/ SubsetPage
    \/ SubsetSplit
    \/ SubsetWrite
    \/ SubsetPacketEnd
    \/ SubsetFinish

SpecSubset == InitSubset /\ [][NextSubset]_vars

(***************************************************************************)
(* What the output files hold.                                             *)
(***************************************************************************)
\* the items of all output files, in file order and then in byte order
RECURSIVE AllItems(_)
AllItems(fs) == IF fs = <<>> THEN <<>> ELSE Head(fs).body \o AllItems(Tail(fs))

\* the row numbers from..to-1 as a sequence
RowSeq(from, to) == [i \in 1..(to - from) |-> from + i - 1]

\* the rows of source packet p found in a sequence of items, in order
RECURSIVE RowsOf(_, _)
RowsOf(items, p) ==
    IF items = <<>> THEN <<>>
    ELSE LET it == Head(items)
         IN (IF it.kind = "R" /\ it.p = p THEN RowSeq(it.from, it.to) ELSE <<>>)
            \o RowsOf(Tail(items), p)

Returned(r) == pc = "done" /\ loc.result = r

\* C1: when savesubsetnsx returns SUCCESS, every source packet with n > 0
\* points has exactly its rows 0..n-1 in the output files, in source order,
\* none dropped and none written twice.
C1_EveryRowWrittenOnce ==
    Returned("SUCCESS") =>
        \A p \in DOMAIN src.pkts :
            src.pkts[p].n > 0 =>
                RowsOf(AllItems(out), p) = RowSeq(0, src.pkts[p].n)


\* the number of sample rows that follow item k of a body, up to the next
\* packet header or the end of the file
RECURSIVE RowsAfter(_, _)
RowsAfter(body, k) ==
    IF k + 1 > Len(body) \/ body[k + 1].kind = "H" THEN 0
    ELSE (body[k + 1].to - body[k + 1].from) + RowsAfter(body, k + 1)

\* every packet header of the file states the rows that follow it
CountsMatch(f) ==
    /\ ~f.corrupt
    /\ \A k \in DOMAIN f.body :
          f.body[k].kind = "H" => f.body[k].npts = RowsAfter(f.body, k)

\* C2: after savesubsetnsx returns SUCCESS on a spec 2.2+ source, in every
\* output file the NumDataPoints field of every packet header equals the
\* number of sample rows written after that header in that file.
C2_NumDataPointsMatchesRows ==
    (Returned("SUCCESS") /\ src.spec # "2.1") =>
        \A i \in DOMAIN out : CountsMatch(out[i])


\* the runs of rows written so far, over all output files
RowItems == {it \in Range(AllItems(out)) : it.kind = "R"}

\* column i (1-based here) of a written run holds the source column of id
ColumnIs(it, i, id) ==
    /\ id \in Range(src.ids)
    /\ i \in DOMAIN it.cols
    /\ it.cols[i] = ListIndex(src.ids, id)

\* the electrode list the writer works with: every channel for 'all', else the
\* requested ids that exist in the file, sorted and without duplicates
EffectiveElecIds ==
    IF req.elec.all THEN src.ids
    ELSE SortedList(Range(req.elec.list) \cap Range(src.ids))

\* C3 as stated: for every requested elec_ids list and every sample row, the
\* column at index i of the subset output is the source column at the
\* original index of elec_ids[i].  The list is the one requested; positions
\* that name an id unknown to the file, or lie past the last output column,
\* are left out of the comparison.
C3_ColumnsFollowRequest ==
    ~req.elec.all =>
        \A it \in RowItems :
            \A i \in DOMAIN req.elec.list \cap DOMAIN it.cols :
                req.elec.list[i] \in Range(src.ids) =>
                    ColumnIs(it, i, req.elec.list[i])

\* C3 amended: for every sample row written, the column at index i is the
\* source column at the original index of the i-th id of the effective list
\* (the requested ids that exist in the file, sorted ascending, duplicates
\* removed; every channel in header order for 'all').
C3_ColumnsFollowSortedRequest ==
    \A it \in RowItems :
        /\ Len(it.cols) = Len(EffectiveElecIds)
        /\ \A i \in DOMAIN EffectiveElecIds : ColumnIs(it, i, EffectiveElecIds[i])

\* a request out of ascending order whose rows have been written and returned
C3_Witness ==
    /\ Returned("SUCCESS")
    /\ req.elec.list = <<2, 1>>
    /\ Len(src.ids) = 2
    /\ \E it \in RowItems : it.to - it.from >= 2

\* The segments a reader finds in an NSx file: per packet header its
\* timestamp, its NumDataPoints and the rows that follow it.  A row is read
\* through the file's header: the channel id of column i is the i-th id of
\* the header, so a row is a map from channel id to the source sample
\* (packet, row, column) found under that id.  Spec 2.1 has no packet
\* headers: the file is one segment at timestamp 0.
LabelledRow(ids, p, r, cols) ==
    [id \in Range(ids) |->
        LET i == ListIndex(ids, id) + 1
        IN IF i \in DOMAIN cols THEN <<p, r, cols[i]>> ELSE <<p, r, -1>>]

RECURSIVE RowsFollowing(_, _, _)
RowsFollowing(ids, body, k) ==
    IF k + 1 > Len(body) \/ body[k + 1].kind = "H" THEN <<>>
    ELSE [i \in 1..(body[k + 1].to - body[k + 1].from) |->
             LabelledRow(ids, body[k + 1].p, body[k + 1].from + i - 1, body[k + 1].cols)]
         \o RowsFollowing(ids, body, k + 1)

RECURSIVE SegmentsFrom(_, _, _)
SegmentsFrom(ids, body, k) ==
    IF k > Len(body) THEN <<>>
    ELSE (IF body[k].kind = "H"
          THEN <<[ts |-> body[k].ts, n |-> body[k].npts,
                  rows |-> RowsFollowing(ids, body, k)]>>
          ELSE <<>>) \o SegmentsFrom(ids, body, k + 1)

DecodedSegments(f) ==
    IF f.hdr.spec = "2.1"
    THEN LET rows == RowsFollowing(f.hdr.ids, <<HeaderItem(0, 0, 0)>> \o f.body, 1)
         IN <<[ts |-> TIMESTAMP_NULL_21, n |-> Len(rows), rows |-> rows]>>
    ELSE SegmentsFrom(f.hdr.ids, f.body, 1)

SourceSegments ==
    [p \in DOMAIN src.pkts |->
        [ts |-> src.pkts[p].ts, n |-> src.pkts[p].n,
         rows |-> [i \in 1..src.pkts[p].n |->
                     LabelledRow(src.ids, p, i - 1, Identity(ChannelCount))]]]

\* the segments that hold samples
NonEmpty(segs) == SelectSeq(segs, LAMBDA s : s.n # 0 \/ s.rows # <<>>)

AllChannelsRequested ==
    req.elec.all \/ Range(req.elec.list) = Range(src.ids)

\* C4: with elec_ids naming every channel of the source ('all', or a list of
\* every channel id in any order) and no size or time bound, savesubsetnsx
\* produces one file whose segments are those of the source: same number of
\* segments, same timestamps, same samples under the same channels.  Stated
\* in its weakest reading: segments without samples are not counted, and a
\* sample is compared under its channel id, not under its column number.
C4_SubsetIdentity ==
    (pc = "done" /\ loc.result # "None" /\ AllChannelsRequested /\ req.mode = "none") =>
        /\ Len(out) = 1
        /\ ~out[1].corrupt
        /\ NonEmpty(DecodedSegments(out[1])) = NonEmpty(SourceSegments)


(***************************************************************************)
(* NsxFile.getdata (brpylib.py:1071-1402).  The call is one action: it     *)
(* reads the open file and returns the output dictionary.                  *)
(***************************************************************************)
\* single-sample records of a spec 3.0 PTP file: 1..MaxPtp
PtpLists ==
    LET Gaps == UNION {[1..k -> {2, 4, 5}] : k \in 0..(MaxPtp - 1)}
    IN {[i \in 1..(Len(gs) + 1) |->
            [ts |-> 5 + SumSeq(SubSeq(gs, 1, i - 1)), n |-> 1]] : gs \in Gaps}

\* The files getdata is called on.  tsres and sampres stand for
\* TimeStampResolution and the sample resolution: equal for specs 2.x, and a
\* finer timestamp clock for the PTP files of spec 3.0.
NsxSourceFiles ==
    {[spec |-> f.spec, ids |-> f.ids, pkts |-> f.pkts, period |-> f.period,
      tsres |-> 30000, sampres |-> 30000] : f \in SourceFiles}
    \cup
    {[spec |-> "3.0", ids |-> ids, pkts |-> pk, period |-> 1,
      tsres |-> 60000, sampres |-> 30000] :
        ids \in ChannelLists, pk \in PtpLists \cup {<<[ts |-> 4, n |-> 2]>>}}

\* the arguments of getdata, after its safety checks.  start and dur are
\* start_time_s and data_time_s times TimeStampResolution (timestamp ticks);
\* dur = -1 stands for 'all'.
GetDataRequests ==
    {[elec |-> e, start |-> s, dur |-> d, downsample |-> ds, zeropad |-> z] :
        e \in {r \in ElecRequests : Len(r.list) <= 1 \/ r.list = <<2, 1>>},
        s \in {0, 2}, d \in {-1, 3}, ds \in {1, 2}, z \in BOOLEAN}

\* brpylib.py:1131-1139 and 1186-1204: the data headers.  Spec 2.1 has one,
\* computed from the file size; otherwise the packets are walked and each
\* packet header becomes one data header.
GetDataHeaders(f) ==
    IF f.spec = "2.1"
    THEN <<[Timestamp |-> TIMESTAMP_NULL_21, NumDataPoints |-> f.pkts[1].n]>>
    ELSE [x \in DOMAIN f.pkts |->
             [Timestamp |-> f.pkts[x].ts, NumDataPoints |-> f.pkts[x].n]]

ZeroSample == <<0, -1, -1>>

\* brpylib.py:1221-1244: the array returned for data header x.  The call
\* reads data_length * num_elecs samples from the start of the packet's data
\* and shapes them (data_length, num_elecs); with zeropad, padsize rows of
\* zeros come first.  The sample at flat position s of a packet is the one
\* of source row s \div ChannelCount, column s % ChannelCount.
SegmentArray(f, x, num_elecs, zeropad) ==
    LET channel_count == Len(f.ids)
        padsize == IF zeropad THEN CeilDiv(f.pkts[x].ts, f.period) ELSE 0
        data_length == f.pkts[x].n + padsize
    IN [r \in 1..data_length |->
          [c \in 1..num_elecs |->
             LET flat == (r - 1) * num_elecs + (c - 1) - padsize * num_elecs
             IN IF flat < 0 THEN ZeroSample
                ELSE <<x, flat \div channel_count, flat % channel_count>>]]

\* the index lists of brpylib.py:1162-1169
ExtendedHeaderIndices(f, elec_ids) ==
    IF f.spec = "2.1" THEN <<>>
    ELSE [i \in DOMAIN elec_ids |-> ListIndex(f.ids, elec_ids[i])]

GetDataOutput(f, r) ==
    LET all_ids == f.ids
        elec_ids == IF r.elec.all THEN all_ids
                    ELSE check_dataelecid(r.elec.list, all_ids)
        num_elecs == Len(elec_ids)
        headers == GetDataHeaders(f)
    IN IF elec_ids = <<>>
       THEN \* brpylib.py:1154-1155: none of the electrodes exists
            [result |-> "returned", elec_ids |-> all_ids, data |-> <<>>,
             data_headers |-> IF f.spec = "2.1" THEN headers ELSE <<>>,
             ExtendedHeaderIndices |-> <<>>]
       ELSE IF f.spec = "2.1"
       THEN \* d_ptr["BoD"] stays empty for spec 2.1 (nothing is appended
            \* outside the packet walk), so d_ptr["BoD"][0] raises
            [result |-> "IndexError", elec_ids |-> elec_ids, data |-> <<>>,
             data_headers |-> headers,
             ExtendedHeaderIndices |-> ExtendedHeaderIndices(f, elec_ids)]
       ELSE [result |-> "returned", elec_ids |-> elec_ids,
             data |-> [x \in DOMAIN headers |-> SegmentArray(f, x, num_elecs, r.zeropad)],
             data_headers |-> headers,
             ExtendedHeaderIndices |-> ExtendedHeaderIndices(f, elec_ids)]

InitNsx ==
    /\ src \in NsxSourceFiles
    /\ req \in GetDataRequests
    /\ pc = "start"
    /\ out = <<>>
    /\ loc = NoLocals

NsxGetData ==
    /\ pc = "start"
    /\ out' = GetDataOutput(src, req)
    /\ pc' = "done"
    /\ UNCHANGED <<src, req, loc>>

NextNsx == NsxGetData

SpecNsx == InitNsx /\ [][NextNsx]_vars


GetDataReturned == pc = "done" /\ out.result = "returned"

\* C5 (as stated): getdata with a subset of electrodes returns, for every
\* segment and every sample row of it, at position i the source's sample of
\* electrode output['elec_ids'][i] in that row, and one row per source row.
C5_GetDataProjectsElectrodes ==
    (GetDataReturned /\ ~req.elec.all /\ ~req.zeropad) =>
        \A x \in DOMAIN out.data :
            /\ Len(out.data[x]) = src.pkts[x].n
            /\ \A r \in DOMAIN out.data[x] :
                 /\ Len(out.data[x][r]) = Len(out.elec_ids)
                 /\ \A i \in DOMAIN out.elec_ids :
                      out.data[x][r][i] =
                          <<x, r - 1, ListIndex(src.ids, out.elec_ids[i])>>

\* C6 (as stated): with start_time_s = a and a numeric data_time_s = d, every
\* sample getdata returns has its timestamp inside
\* [ts0 + a*r, ts0 + (a+d)*r], and every source sample inside it is returned.
C6_GetDataTimeWindow ==
    (GetDataReturned /\ req.dur >= 0 /\ ~req.zeropad /\ out.data # <<>>) =>
        LET \* timestamp ticks between two samples of a segment
            ClkPerSamp == (src.period * src.tsres) \div src.sampres
            ts0 == src.pkts[1].ts
            lo == ts0 + req.start
            hi == ts0 + req.start + req.dur
            InWindow(t) == lo <= t /\ t <= hi
            ReturnedTimes == UNION {{out.data_headers[x].Timestamp + (r - 1) * ClkPerSamp :
                                        r \in DOMAIN out.data[x]} : x \in DOMAIN out.data}
            SourceTimes == UNION {{src.pkts[x].ts + k * ClkPerSamp :
                                      k \in 0..(src.pkts[x].n - 1)} : x \in DOMAIN src.pkts}
        IN /\ \A t \in ReturnedTimes : InWindow(t)
           /\ \A t \in SourceTimes : InWindow(t) => t \in ReturnedTimes

IsPtpFile == src.spec = "3.0" /\ \A x \in DOMAIN src.pkts : src.pkts[x].n = 1

\* C10 (as stated): on a spec 3.0 file of single-sample records the segments
\* getdata returns are the maximal runs of consecutive records whose
\* timestamp delta is within seg_threshold_clk =
\* 2 * Period * TimeStampResolution / SampleResolution, each run reported by
\* the timestamp of its first record and its length.
C10_PtpSegmentsAreMaximalRuns ==
    (GetDataReturned /\ IsPtpFile /\ ~req.zeropad /\ out.data # <<>>) =>
        LET seg_threshold_clk == (2 * src.period * src.tsres) \div src.sampres
            RECURSIVE PtpRuns(_, _)
            PtpRuns(k, runs) ==
                IF k > Len(src.pkts) THEN runs
                ELSE IF k > 1 /\ src.pkts[k].ts - src.pkts[k - 1].ts <= seg_threshold_clk
                THEN PtpRuns(k + 1, [runs EXCEPT ![Len(runs)].NumDataPoints = @ + 1])
                ELSE PtpRuns(k + 1, Append(runs, [Timestamp |-> src.pkts[k].ts,
                                                  NumDataPoints |-> 1]))
            runs == PtpRuns(1, <<>>)
        IN /\ out.data_headers = runs
           /\ Len(out.data) = Len(runs)
           /\ \A k \in DOMAIN runs : Len(out.data[k]) = runs[k].NumDataPoints

(***************************************************************************)
(* NevFile.getdata (brpylib.py:547-962).  The call is one action: it reads *)
(* every packet of the open file and returns the output dictionary.        *)
(*                                                                         *)
(* A packet is [id, b2, text]: PacketID, the byte after it (the unit, the  *)
(* insertion reason or the CharSet, by class) and the bytes of the comment *)
(* text.  The timestamp of packet i is Ts(i); any other field is named by  *)
(* its packet, byte offset and width.                                      *)
(***************************************************************************)
NUL == "NUL"

\* the text bytes of a comment packet: BytesInDataPackets - tsBytes - 10
TextBytes == 10

Pad(s) == s \o [i \in 1..(TextBytes - Len(s)) |-> NUL]

NoText == Pad(<<>>)

PacketKinds ==
    {[id |-> NEURAL_PACKET_ID_MIN, b2 |-> 0, text |-> NoText],
     [id |-> 2, b2 |-> 1, text |-> NoText],
     [id |-> DIGITAL_PACKET_ID, b2 |-> 1, text |-> NoText],
     [id |-> COMMENT_PACKET_ID, b2 |-> CHARSET_ANSI, text |-> Pad(<<"h", "i">>)],
     [id |-> COMMENT_PACKET_ID, b2 |-> CHARSET_UTF, text |-> Pad(<<"a", "$", "b">>)],
     [id |-> COMMENT_PACKET_ID, b2 |-> CHARSET_ROI,
      text |-> Pad(<<"r", ":", "7", ":", "1", ":", "4", ":", "0">>)],
     [id |-> VIDEO_SYNC_PACKET_ID, b2 |-> 0, text |-> NoText],
     [id |-> TRACKING_PACKET_ID, b2 |-> 0, text |-> NoText],
     [id |-> BUTTON_PACKET_ID, b2 |-> 1, text |-> NoText],
     [id |-> CONFIGURATION_PACKET_ID, b2 |-> 0, text |-> NoText],
     [id |-> NEURAL_PACKET_ID_MAX + 1, b2 |-> 0, text |-> NoText]}

NevFiles ==
    {[type |-> t, pkts |-> p] :
        t \in {"NEURALEV", "BREVENTS"},
        p \in UNION {[1..n -> PacketKinds] : n \in 0..MaxNevPkts}}

NevRequests ==
    {[elec |-> e, wave_read |-> w] :
        e \in {[all |-> TRUE, list |-> <<>>], [all |-> FALSE, list |-> <<2>>]},
        w \in {"read", "no_read"}}

\* brpylib.py:585-602
tsBytes(f) == IF f.type = "BREVENTS" THEN 8 ELSE 4

\* BytesInDataPackets, from lcomment of brpylib.py:717
BytesInDataPackets(f) == TextBytes + tsBytes(f) + 10

Ts(i) == 10 * i

\* the value of width w stored at byte offset off of packet i: a number that
\* names its place and is no timestamp
FieldAt(i, off, w) == 1000 * i + 10 * off + w

\* the packet indices, in file order, whose PacketID is one of ids
PacketsWhere(f, ids) ==
    SelectSeq([i \in 1..Len(f.pkts) |-> i], LAMBDA i : f.pkts[i].id \in ids)

Pick(s, idx) == [k \in DOMAIN idx |-> s[idx[k]]]

RECURSIVE Concat(_)
Concat(ss) == IF ss = <<>> THEN <<>> ELSE Head(ss) \o Concat(Tail(ss))

\* Python's str.split(d) on a sequence of characters
RECURSIVE Split(_, _, _)
Split(s, d, cur) ==
    IF s = <<>> THEN <<cur>>
    ELSE IF Head(s) = d THEN <<cur>> \o Split(Tail(s), d, <<>>)
    ELSE Split(Tail(s), d, Append(cur, Head(s)))

\* brpylib.py:732-738 and 756-762: the texts of the packets idx, the last
\* byte of each overwritten by d, joined, the final character and the NULs
\* removed, split on d
SplitTexts(f, idx, d) ==
    LET joined == Concat([k \in DOMAIN idx |->
                     SubSeq(f.pkts[idx[k]].text, 1, TextBytes - 1) \o <<d>>])
        stripped == SubSeq(joined, 1, Len(joined) - 1)
        valid == SelectSeq(stripped, LAMBDA c : c # NUL)
    IN Split(valid, d, <<>>)

Absent == [present |-> FALSE]

\* brpylib.py:614-653
SpikeEvents(f, r) ==
    LET allNeural == PacketsWhere(f, NEURAL_PACKET_ID_MIN..NEURAL_PACKET_ID_MAX)
        neuralPackets ==
            IF r.elec.all THEN allNeural
            ELSE SelectSeq(allNeural, LAMBDA i : f.pkts[i].id \in Range(r.elec.list))
        columns == BytesInDataPackets(f) - (tsBytes(f) + 4)
    IN IF allNeural = <<>> THEN Absent
       ELSE [present |-> TRUE,
             TimeStamps |-> [k \in DOMAIN neuralPackets |-> Ts(neuralPackets[k])],
             Unit |-> [k \in DOMAIN neuralPackets |-> f.pkts[neuralPackets[k]].b2],
             Channel |-> [k \in DOMAIN neuralPackets |-> f.pkts[neuralPackets[k]].id],
             has_Waveforms |-> r.wave_read = "read",
             \* strides (BytesInDataPackets, 0): every column of a row is
             \* read at the same byte offset
             Waveforms |->
                 IF r.wave_read = "read"
                 THEN [k \in DOMAIN neuralPackets |->
                          [j \in 1..columns |->
                              FieldAt(neuralPackets[k], tsBytes(f) + 4 + 0 * (j - 1), 2)]]
                 ELSE <<>>]

\* brpylib.py:656-678
DigitalEvents(f) ==
    LET digiPackets == PacketsWhere(f, {DIGITAL_PACKET_ID})
    IN IF digiPackets = <<>> THEN Absent
       ELSE [present |-> TRUE,
             TimeStamps |-> [k \in DOMAIN digiPackets |-> Ts(digiPackets[k])],
             InsertionReason |-> [k \in DOMAIN digiPackets |-> f.pkts[digiPackets[k]].b2],
             UnparsedData |-> [k \in DOMAIN digiPackets |->
                                  FieldAt(digiPackets[k], tsBytes(f) + 4, 4)]]

commentPackets(f) == PacketsWhere(f, {COMMENT_PACKET_ID})

\* positions in commentPackets (from 1) of the packets with CharSet 255
ROIPackets(f) ==
    SelectSeq([k \in 1..Len(commentPackets(f)) |-> k],
              LAMBDA k : f.pkts[commentPackets(f)[k]].b2 = CHARSET_ROI)

\* brpylib.py:728-730: setdiff1d(range(0, len(commentPackets) - 1), ROIPackets),
\* as positions from 1: the last comment packet is never among them
trueComments(f) ==
    SelectSeq([k \in 1..(Len(commentPackets(f)) - 1) |-> k],
              LAMBDA k : k \notin Range(ROIPackets(f)))

charSetList(f) ==
    [k \in 1..Len(commentPackets(f)) |->
        LET c == f.pkts[commentPackets(f)[k]].b2
        IN IF c = CHARSET_ANSI THEN "ANSI"
           ELSE IF c = CHARSET_UTF THEN "UTF " ELSE "None"]

\* brpylib.py:728-731.  With a single comment packet range(0, 0) is empty
\* and setdiff1d returns an empty array of floats; indexing with it raises
\* IndexError in numpy, or selects nothing where numpy accepts it.
CommentsMayRaise(f) == Len(commentPackets(f)) = 1

\* brpylib.py:681-750
Comments(f) ==
    LET trueCommentsidx == Pick(commentPackets(f), trueComments(f))
        \* set(range(0, len(charSetList) - 1)) - set(ROIPackets), which for
        \* these small integers lists in ascending order
        subsetInds == trueComments(f)
    IN IF commentPackets(f) = <<>> THEN Absent
       ELSE [present |-> TRUE,
             TimeStamps |-> [k \in DOMAIN trueCommentsidx |-> Ts(trueCommentsidx[k])],
             TimeStampsStarted |-> [k \in DOMAIN trueCommentsidx |->
                                      FieldAt(trueCommentsidx[k], tsBytes(f) + 4, 4)],
             Data |-> SplitTexts(f, trueCommentsidx, "$"),
             CharSet |-> Pick(charSetList(f), subsetInds)]

\* brpylib.py:753-771
ROIfields(f) == SplitTexts(f, Pick(commentPackets(f), ROIPackets(f)), ":")

\* np.reshape(ROIfields, (len(ROIPackets), 5)) needs exactly 5 fields a packet
TrackingRaise(f) ==
    /\ ROIPackets(f) # <<>>
    /\ Len(ROIfields(f)) # 5 * Len(ROIPackets(f))

TrackingEvents(f) ==
    LET nmCommentsidx == Pick(commentPackets(f), ROIPackets(f))
        Column(c) == [k \in DOMAIN nmCommentsidx |-> ROIfields(f)[5 * (k - 1) + c]]
    IN IF ROIPackets(f) = <<>> THEN Absent
       ELSE [present |-> TRUE,
             TimeStamps |-> [k \in DOMAIN nmCommentsidx |-> Ts(nmCommentsidx[k])],
             ROIName |-> Column(1), ROINumber |-> Column(2),
             Event |-> Column(3), Frame |-> Column(4)]

\* brpylib.py:774-814
VideoSyncEvents(f) ==
    LET vidsyncPackets == PacketsWhere(f, {VIDEO_SYNC_PACKET_ID})
        Fields(off, w) == [k \in DOMAIN vidsyncPackets |->
                              FieldAt(vidsyncPackets[k], tsBytes(f) + off, w)]
    IN IF vidsyncPackets = <<>> THEN Absent
       ELSE [present |-> TRUE,
             TimeStamps |-> [k \in DOMAIN vidsyncPackets |-> Ts(vidsyncPackets[k])],
             FileNumber |-> Fields(2, 2), FrameNumber |-> Fields(4, 4),
             ElapsedTime |-> Fields(8, 4), SourceID |-> Fields(12, 4)]

\* brpylib.py:817-924, for a file whose extended headers name no TRACKOBJ
Tracking(f) ==
    IF PacketsWhere(f, {TRACKING_PACKET_ID}) = <<>> THEN Absent
    ELSE [present |-> TRUE, TrackerIDs |-> <<>>, TrackerTypes |-> <<>>,
          TrackerObjs |-> <<>>]

\* brpylib.py:927-941
PatientTrigger(f) ==
    LET buttonPackets == PacketsWhere(f, {BUTTON_PACKET_ID})
    IN IF buttonPackets = <<>> THEN Absent
       ELSE [present |-> TRUE,
             TimeStamps |-> [k \in DOMAIN buttonPackets |-> Ts(buttonPackets[k])],
             TriggerType |-> [k \in DOMAIN buttonPackets |->
                                 FieldAt(buttonPackets[k], tsBytes(f) + 2, 2)]]

\* brpylib.py:944-960: ChangeType is filled from ts
Reconfig(f) ==
    LET configPackets == PacketsWhere(f, {CONFIGURATION_PACKET_ID})
    IN IF configPackets = <<>> THEN Absent
       ELSE [present |-> TRUE,
             TimeStamps |-> [k \in DOMAIN configPackets |-> Ts(configPackets[k])],
             ChangeType |-> [k \in DOMAIN configPackets |-> Ts(configPackets[k])]]

Raised(error) ==
    [result |-> error,
     spike_events |-> Absent, digital_events |-> Absent,
     comments |-> Absent, tracking_events |-> Absent,
     video_sync_events |-> Absent, tracking |-> Absent,
     PatientTrigger |-> Absent, reconfig |-> Absent]

\* the dictionary getdata returns when nothing raises
NevOutput(f, r) ==
    IF TrackingRaise(f) THEN Raised("ValueError")
    ELSE [result |-> "returned",
          spike_events |-> SpikeEvents(f, r), digital_events |-> DigitalEvents(f),
          comments |-> Comments(f), tracking_events |-> TrackingEvents(f),
          video_sync_events |-> VideoSyncEvents(f), tracking |-> Tracking(f),
          PatientTrigger |-> PatientTrigger(f), reconfig |-> Reconfig(f)]

NevOutcomes(f, r) ==
    IF CommentsMayRaise(f) THEN {Raised("IndexError"), NevOutput(f, r)}
    ELSE {NevOutput(f, r)}

InitNev ==
    /\ src \in NevFiles
    /\ req \in NevRequests
    /\ pc = "start"
    /\ out = <<>>
    /\ loc = NoLocals

NevGetData ==
    /\ pc = "start"
    /\ out' \in NevOutcomes(src, req)
    /\ pc' = "done"
    /\ UNCHANGED <<src, req, loc>>

NextNev == NevGetData

SpecNev == InitNev /\ [][NextNev]_vars


NevReturned == pc = "done" /\ out.result = "returned"

Entries(class) == IF class.present THEN Len(class.TimeStamps) ELSE 0

TextCommentPackets ==
    SelectSeq(commentPackets(src), LAMBDA i : src.pkts[i].b2 # CHARSET_ROI)

ROICommentPackets ==
    SelectSeq(commentPackets(src), LAMBDA i : src.pkts[i].b2 = CHARSET_ROI)

\* C7 (as stated): the comments stream has one entry for every COMMENT packet
\* whose CharSet is not 0xFF, and the tracking-events (ROI) stream one entry
\* for every COMMENT packet whose CharSet is 0xFF.
C7_CommentsPartitionedByCharSet ==
    NevReturned =>
        /\ Entries(out.comments) = Len(TextCommentPackets)
        /\ Entries(out.tracking_events) = Len(ROICommentPackets)

\* C8 (as stated): with waveforms requested the waveform array has one row
\* for every returned NEURAL packet and (BytesInDataPackets - ts_size - 4) / 2
\* columns, column j being the int16 at byte offset ts_size + 4 + 2*j of the
\* packet; with waveforms not requested there is no waveform array.
C8_WaveformShapeAndContent ==
    (NevReturned /\ out.spike_events.present) =>
        LET spikes == out.spike_events
            ts_size == tsBytes(src)
            columns == (BytesInDataPackets(src) - ts_size - 4) \div 2
        IN IF req.wave_read = "read"
           THEN /\ spikes.has_Waveforms
                /\ Len(spikes.Waveforms) = Len(spikes.TimeStamps)
                /\ \A k \in DOMAIN spikes.Waveforms :
                     /\ Len(spikes.Waveforms[k]) = columns
                     /\ \A j \in 0..(columns - 1) :
                          spikes.Waveforms[k][j + 1] =
                              FieldAt(spikes.TimeStamps[k] \div 10, ts_size + 4 + 2 * j, 2)
           ELSE ~spikes.has_Waveforms

\* the entries of list are, in order, the values that the first packets of
\* a class give
FromPackets(list, values) ==
    /\ Len(list) <= Len(values)
    /\ \A k \in DOMAIN list : list[k] = values[k]

\* the text of a comment packet: its bytes up to the first NUL
RECURSIVE UpToNul(_)
UpToNul(s) ==
    IF s = <<>> \/ Head(s) = NUL THEN <<>> ELSE <<Head(s)>> \o UpToNul(Tail(s))

ClassStreams ==
    <<out.spike_events, out.digital_events, out.comments, out.tracking_events,
      out.video_sync_events, out.PatientTrigger, out.reconfig>>

\* C9 (as stated): in every class output the k-th entry of TimeStamps and of
\* every parallel field list comes from the k-th packet of that class in
\* file order (the NEURAL class restricted to the requested electrodes), and
\* no packet is reported by two classes.
C9_ClassOrderPreserved ==
    NevReturned =>
        LET ts_size == tsBytes(src)
            neural == SelectSeq(
                PacketsWhere(src, NEURAL_PACKET_ID_MIN..NEURAL_PACKET_ID_MAX),
                LAMBDA i : req.elec.all \/ src.pkts[i].id \in Range(req.elec.list))
            digital == PacketsWhere(src, {DIGITAL_PACKET_ID})
            video == PacketsWhere(src, {VIDEO_SYNC_PACKET_ID})
            button == PacketsWhere(src, {BUTTON_PACKET_ID})
            config == PacketsWhere(src, {CONFIGURATION_PACKET_ID})
        IN /\ out.spike_events.present =>
                /\ FromPackets(out.spike_events.TimeStamps,
                       [k \in DOMAIN neural |-> Ts(neural[k])])
                /\ FromPackets(out.spike_events.Unit,
                       [k \in DOMAIN neural |-> src.pkts[neural[k]].b2])
                /\ FromPackets(out.spike_events.Channel,
                       [k \in DOMAIN neural |-> src.pkts[neural[k]].id])
           /\ out.digital_events.present =>
                /\ FromPackets(out.digital_events.TimeStamps,
                       [k \in DOMAIN digital |-> Ts(digital[k])])
                /\ FromPackets(out.digital_events.InsertionReason,
                       [k \in DOMAIN digital |-> src.pkts[digital[k]].b2])
                /\ FromPackets(out.digital_events.UnparsedData,
                       [k \in DOMAIN digital |-> FieldAt(digital[k], ts_size + 4, 4)])
           /\ out.comments.present =>
                /\ FromPackets(out.comments.TimeStamps,
                       [k \in DOMAIN TextCommentPackets |-> Ts(TextCommentPackets[k])])
                /\ FromPackets(out.comments.TimeStampsStarted,
                       [k \in DOMAIN TextCommentPackets |->
                           FieldAt(TextCommentPackets[k], ts_size + 4, 4)])
                /\ FromPackets(out.comments.Data,
                       [k \in DOMAIN TextCommentPackets |->
                           UpToNul(src.pkts[TextCommentPackets[k]].text)])
                /\ FromPackets(out.comments.CharSet,
                       [k \in DOMAIN TextCommentPackets |->
                           IF src.pkts[TextCommentPackets[k]].b2 = CHARSET_ANSI
                           THEN "ANSI" ELSE "UTF "])
           /\ out.video_sync_events.present =>
                /\ FromPackets(out.video_sync_events.TimeStamps,
                       [k \in DOMAIN video |-> Ts(video[k])])
                /\ FromPackets(out.video_sync_events.FileNumber,
                       [k \in DOMAIN video |-> FieldAt(video[k], ts_size + 2, 2)])
                /\ FromPackets(out.video_sync_events.FrameNumber,
                       [k \in DOMAIN video |-> FieldAt(video[k], ts_size + 4, 4)])
                /\ FromPackets(out.video_sync_events.ElapsedTime,
                       [k \in DOMAIN video |-> FieldAt(video[k], ts_size + 8, 4)])
                /\ FromPackets(out.video_sync_events.SourceID,
                       [k \in DOMAIN video |-> FieldAt(video[k], ts_size + 12, 4)])
           /\ out.PatientTrigger.present =>
                /\ FromPackets(out.PatientTrigger.TimeStamps,
                       [k \in DOMAIN button |-> Ts(button[k])])
                /\ FromPackets(out.PatientTrigger.TriggerType,
                       [k \in DOMAIN button |-> FieldAt(button[k], ts_size + 2, 2)])
           /\ out.reconfig.present =>
                /\ FromPackets(out.reconfig.TimeStamps,
                       [k \in DOMAIN config |-> Ts(config[k])])
                /\ Len(out.reconfig.ChangeType) <= Len(config)
                /\ \A k \in DOMAIN out.reconfig.ChangeType :
                     out.reconfig.ChangeType[k] \in
                         {Ts(config[k]), FieldAt(config[k], ts_size + 2, 2)}
           /\ \A i \in DOMAIN src.pkts :
                Cardinality({c \in DOMAIN ClassStreams :
                    /\ ClassStreams[c].present
                    /\ Ts(i) \in Range(ClassStreams[c].TimeStamps)}) <= 1


(***************************************************************************)
(* Legacy files (spec 2.1, FileTypeID NEURALSG) under getdata.             *)
(***************************************************************************)
\* C11: for a spec 2.1 file, getdata with all channels returns, with exactly
\* one data header (Timestamp 0, NumDataPoints = the samples per channel the
\* file size gives) and one data array of NumDataPoints rows with one value
\* per channel of the file.
C11_LegacyOneSegment ==
    (pc = "done" /\ src.spec = "2.1" /\ req.elec.all /\ ~req.zeropad) =>
        /\ out.result = "returned"
        /\ out.data_headers = <<[Timestamp |-> TIMESTAMP_NULL_21,
                                 NumDataPoints |-> src.pkts[1].n]>>
        /\ Len(out.data) = 1
        /\ Len(out.data[1]) = src.pkts[1].n
        /\ \A r \in DOMAIN out.data[1] : Len(out.data[1][r]) = Len(src.ids)


(***************************************************************************)
(* The open reader at the level of bytes: the data file as the bytes the   *)
(* methods read, and the file position self.datafile keeps between calls.  *)
(***************************************************************************)
\* unpack("<I", ...), unpack("<Q", ...) and their inverse
RECURSIVE LittleEndian(_, _)
LittleEndian(v, w) ==
    IF w = 0 THEN <<>> ELSE <<v % 256>> \o LittleEndian(v \div 256, w - 1)

RECURSIVE Unpack(_)
Unpack(bytes) ==
    IF bytes = <<>> THEN 0 ELSE Head(bytes) + 256 * Unpack(Tail(bytes))

\* one element of a '<h' array
Int16(bytes) ==
    LET u == Unpack(bytes) IN IF u >= 32768 THEN u - 65536 ELSE u

\* the width of the timestamp field of a data packet header as it is stored:
\* 8 bytes in a spec 3.0 file, 4 bytes before (brpylib.py:1195-1198)
TimestampBytes(spec) == IF spec = "3.0" THEN 8 ELSE 4

\* the stored value of the sample of packet x, row, column: a small number
\* that names its place
SampleValue(x, row, col) == 24 * x + 4 * row + col

\* the bytes of one data packet: header byte 1, timestamp, number of data
\* points, then the samples row by row (spec 2.1 has the samples only)
PacketBytes(f, x) ==
    LET cc == Len(f.ids)
        samples == [k \in 1..(f.pkts[x].n * cc * DATA_BYTE_SIZE) |->
                       LittleEndian(SampleValue(x, (k - 1) \div (cc * DATA_BYTE_SIZE),
                                                ((k - 1) % (cc * DATA_BYTE_SIZE)) \div DATA_BYTE_SIZE),
                                    DATA_BYTE_SIZE)[((k - 1) % DATA_BYTE_SIZE) + 1]]
    IN IF f.spec = "2.1" THEN samples
       ELSE <<1>> \o LittleEndian(f.pkts[x].ts, TimestampBytes(f.spec))
                  \o LittleEndian(f.pkts[x].n, 4) \o samples

RECURSIVE PacketsBytes(_, _)
PacketsBytes(f, x) ==
    IF x > Len(f.pkts) THEN <<>> ELSE PacketBytes(f, x) \o PacketsBytes(f, x + 1)

DataBytes(f) == PacketsBytes(f, 1)

\* basic_header['BytesInHeader'] as openfile sets it (brpylib.py:1047-1062)
BytesInHeader(f) ==
    IF f.spec = "2.1" THEN 32 + 4 * Len(f.ids)
    ELSE NSX_BASIC_HEADER_BYTES_22 + NSX_EXT_HEADER_BYTES_22 * Len(f.ids)

\* ospath.getsize(self.datafile.name); f.data are the bytes after the headers
FileSize(f) == BytesInHeader(f) + Len(f.data)

\* self.datafile.read(n) at position pos: the bytes that exist.  The header
\* bytes are parsed by openfile and stand as 0 here.
ReadAt(f, pos, n) ==
    LET stop == Min(pos + n, FileSize(f))
    IN [k \in 1..Max(stop - pos, 0) |->
           IF pos + k - 1 < BytesInHeader(f) THEN 0
           ELSE f.data[pos + k - BytesInHeader(f)]]

\* the offsets at which the data packet headers of the file start
PacketOffsets(f) ==
    [x \in DOMAIN f.pkts |->
        BytesInHeader(f) + Len(PacketsBytes([f EXCEPT !.pkts = SubSeq(f.pkts, 1, x - 1)], 1))]

\* getdata without the seek of brpylib.py:1128
KeepPosition(f, pos) == pos

\* brpylib.py:1128: getdata first moves the file position to the start of
\* the data, wherever an earlier call left it
SeekDataStart(f, pos) == BytesInHeader(f)

\* brpylib.py:1190-1204: the packet walk of getdata from position pos.  Each
\* step notes the header offset (BoH), reads the timestamp (8 bytes for
\* FileSpec "3.0", else 4) and the number of data points, notes the data
\* offset (BoD) and skips the data.  unpack of a short read raises.
RECURSIVE GetDataWalk(_, _)
GetDataWalk(f, pos) ==
    IF pos >= FileSize(f) THEN [error |-> FALSE, steps |-> <<>>, pos |-> pos]
    ELSE LET width == IF f.spec = "3.0" THEN 8 ELSE 4
             timestamp == ReadAt(f, pos + 1, width)
             num_data_pts == ReadAt(f, pos + 1 + width, 4)
             BoD == pos + 1 + width + 4
         IN IF Len(timestamp) < width \/ Len(num_data_pts) < 4
            THEN [error |-> TRUE, steps |-> <<>>, pos |-> FileSize(f)]
            ELSE LET rest == GetDataWalk(f, BoD + Unpack(num_data_pts)
                                                 * Len(f.ids) * DATA_BYTE_SIZE)
                 IN [error |-> rest.error,
                     steps |-> <<[BoH |-> pos, BoD |-> BoD,
                                  Timestamp |-> Unpack(timestamp),
                                  NumDataPoints |-> Unpack(num_data_pts)]>> \o rest.steps,
                     pos |-> rest.pos]

\* brpylib.py:1221-1244: the array for one data header.  The bytes are read
\* from BoD, zeros are put in front with zeropad, and np.ndarray shapes them
\* (data_length, num_elecs); a buffer that is too short raises TypeError.
ReadSegment(f, step, num_elecs, zeropad) ==
    LET recorded_data == ReadAt(f, step.BoD, step.NumDataPoints * num_elecs * DATA_BYTE_SIZE)
        padsize == IF zeropad THEN CeilDiv(step.Timestamp, f.period) ELSE 0
        data_length == step.NumDataPoints + padsize
        buffer == [k \in 1..(padsize * num_elecs * DATA_BYTE_SIZE) |-> 0] \o recorded_data
    IN [error |-> Len(buffer) < data_length * num_elecs * DATA_BYTE_SIZE,
        pos |-> step.BoD + Len(recorded_data),
        array |-> [r \in 1..data_length |->
                     [c \in 1..num_elecs |->
                        Int16(SubSeq(buffer,
                                     ((r - 1) * num_elecs + c - 1) * DATA_BYTE_SIZE + 1,
                                     ((r - 1) * num_elecs + c) * DATA_BYTE_SIZE))]]]

\* NsxFile.getdata (brpylib.py:1071-1402) on the bytes, called with the file
\* position at pos.  The result carries the returned output, the header
\* offsets the walk visited and the file position the call leaves.
GetDataRead(f, r, pos) ==
    LET start == SeekDataStart(f, pos)
        all_ids == f.ids
        elec_ids == IF r.elec.all THEN all_ids
                    ELSE check_dataelecid(r.elec.list, all_ids)
        num_elecs == Len(elec_ids)
        first21 == <<[Timestamp |-> TIMESTAMP_NULL_21,
                      NumDataPoints |-> FloorDiv(FileSize(f) - start,
                                                 DATA_BYTE_SIZE * Len(f.ids))]>>
        walk == GetDataWalk(f, start)
        headers == [x \in DOMAIN walk.steps |->
                      [Timestamp |-> walk.steps[x].Timestamp,
                       NumDataPoints |-> walk.steps[x].NumDataPoints]]
        segs == [x \in DOMAIN walk.steps |->
                    ReadSegment(f, walk.steps[x], num_elecs, r.zeropad)]
        BoH == [x \in DOMAIN walk.steps |-> walk.steps[x].BoH]
        \* the first segment np.ndarray refuses, 0 if none
        bad == IF \E x \in DOMAIN segs : segs[x].error
               THEN CHOOSE x \in DOMAIN segs :
                       segs[x].error /\ \A y \in 1..(x - 1) : ~segs[y].error
               ELSE 0
    IN IF elec_ids = <<>>
       THEN [result |-> "returned", elec_ids |-> all_ids, data |-> <<>>,
             data_headers |-> IF f.spec = "2.1" THEN first21 ELSE <<>>,
             BoH |-> <<>>, walked |-> FALSE, walk_end |-> 0, pos |-> start]
       ELSE IF f.spec = "2.1"
       THEN [result |-> "IndexError", elec_ids |-> elec_ids, data |-> <<>>,
             data_headers |-> first21, BoH |-> <<>>, walked |-> FALSE, walk_end |-> 0, pos |-> start]
       ELSE IF walk.error
       THEN [result |-> "struct.error", elec_ids |-> elec_ids, data |-> <<>>,
             data_headers |-> <<>>, BoH |-> BoH, walked |-> TRUE, walk_end |-> walk.pos, pos |-> walk.pos]
       ELSE IF bad # 0
       THEN [result |-> "TypeError", elec_ids |-> elec_ids, data |-> <<>>,
             data_headers |-> headers, BoH |-> BoH, walked |-> TRUE, walk_end |-> walk.pos,
             pos |-> segs[bad].pos]
       ELSE [result |-> "returned", elec_ids |-> elec_ids,
             data |-> [x \in DOMAIN segs |-> segs[x].array],
             data_headers |-> headers, BoH |-> BoH, walked |-> TRUE,
             walk_end |-> walk.pos,
             pos |-> IF segs = <<>> THEN walk.pos ELSE segs[Len(segs)].pos]

\* brpylib.py:1544-1706: the packet loop of savesubsetnsx on the source, from
\* position pos.  Each pass reads the header byte, 4 bytes of timestamp and
\* 4 bytes of packet_pts; a packet of 0 points is passed over; otherwise the
\* pages of the packet are mapped (a page that reaches past the end of the
\* file raises ValueError) and the position is set behind the packet's data.
\* np.memmap leaves the position at the end of the file.
RECURSIVE SubsetWalk(_, _)
SubsetWalk(f, pos) ==
    LET cc == Len(f.ids)
        datafile_datapt_size == cc * DATA_BYTE_SIZE
    IN IF pos = FileSize(f) THEN [result |-> "SUCCESS", BoH |-> <<>>, pos |-> pos]
       ELSE IF f.spec = "2.1"
       THEN \* packet_pts is a float: the pages are written, then
            \* self.datafile.seek(datafile_pos) refuses the float
            [result |-> "TypeError", BoH |-> <<>>, pos |-> FileSize(f)]
       ELSE LET packet_pts_binary == ReadAt(f, pos + 5, 4)
                packet_pts == Unpack(packet_pts_binary)
                datafile_pos == pos + 9
                num_loops == NumLoops(packet_pts, cc)
                fits == /\ packet_pts <= FileSize(f)
                        /\ \A loop \in 0..(num_loops - 1) :
                              datafile_pos + loop * MmLength(cc)
                                + PagePts(loop, num_loops, packet_pts, cc) * datafile_datapt_size
                                  <= FileSize(f)
            IN IF Len(packet_pts_binary) < 4
               THEN [result |-> "struct.error", BoH |-> <<pos>>, pos |-> FileSize(f)]
               ELSE IF packet_pts = 0
               THEN LET rest == SubsetWalk(f, datafile_pos)
                    IN [rest EXCEPT !.BoH = <<pos>> \o rest.BoH]
               ELSE IF ~fits
               THEN [result |-> "ValueError", BoH |-> <<pos>>, pos |-> FileSize(f)]
               ELSE LET rest == SubsetWalk(f, datafile_pos + cc * packet_pts * DATA_BYTE_SIZE)
                    IN [rest EXCEPT !.BoH = <<pos>> \o rest.BoH]

\* NsxFile.savesubsetnsx (brpylib.py:1404-1730) as the reader sees it: the
\* position is set to 0; the call returns None when no requested electrode
\* exists or the overwrite question is not answered with 'y'; otherwise the
\* headers are read to their end and the packets are walked.  What the call
\* writes is followed in SpecSubset.
SubsetRead(f, elec, overwrite) ==
    LET elec_ids == IF elec.all THEN f.ids ELSE check_dataelecid(elec.list, f.ids)
    IN IF elec_ids = <<>> \/ ~overwrite
       THEN [result |-> "None", BoH |-> <<>>, pos |-> 0]
       ELSE SubsetWalk(f, BytesInHeader(f))

\* the packets of a file of the reader, and the rows they hold together
MaxReaderRows == 2

\* The files of the reader, each with its bytes: the small ones among the
\* files of specs 2.1, 2.3 and 3.0 above, with a period of 1 and the
\* channels in ascending order.
ReaderFiles ==
    {[spec |-> f.spec, ids |-> f.ids, pkts |-> f.pkts, period |-> f.period,
      data |-> DataBytes(f)] :
        f \in {g \in NsxSourceFiles :
                  /\ g.period = 1
                  /\ g.ids[1] = 1
                  /\ Len(g.pkts) <= MaxReaderRows
                  /\ SumSeq([x \in DOMAIN g.pkts |-> g.pkts[x].n]) <= MaxReaderRows}}

\* elec_ids of the calls on the reader: 'all', one channel of the file, or
\* one the file does not have
ReaderElecs ==
    {[all |-> TRUE, list |-> <<>>], [all |-> FALSE, list |-> <<1>>],
     [all |-> FALSE, list |-> <<3>>]}

\* the arguments of the getdata call that is repeated, and of the others
ReaderRequests ==
    {[elec |-> e, start |-> 0, dur |-> -1, downsample |-> 1, zeropad |-> z] :
        e \in ReaderElecs, z \in BOOLEAN}

\* loc of the reader after a call: the file position it leaves, the position
\* it was made at, the method, whether it was getdata with the arguments
\* req, its result, and the header offsets its packet walk visited with the
\* position at which the walk ended
ReaderLocals(pos, from, method, same, result, walked, BoH, walk_end) ==
    [pos |-> pos, from |-> from, method |-> method, same |-> same,
     result |-> result, walked |-> walked, BoH |-> BoH, walk_end |-> walk_end]

InitReader ==
    /\ src \in ReaderFiles
    /\ req \in ReaderRequests
    /\ pc = "open"
    /\ out = <<>>
    /\ loc = ReaderLocals(BytesInHeader(src), 0, "openfile", FALSE, "opened",
                          FALSE, <<>>, 0)

\* the ChannelID list after a getdata that cut the shared list down to the
\* returned electrodes in place
ChannelIDReducedInPlace(f, elec_ids) ==
    IF f.spec = "2.1" THEN elec_ids ELSE f.ids

\* brpylib.py:1131-1159: the ChannelID list of the header after getdata.  For
\* spec 2.1 output["elec_ids"] is the header's own list; the call only reads
\* it (index) and binds output["elec_ids"] to the new list of the requested
\* electrodes, so the header's list stays as it is.
ChannelIDAfterGetData(f, elec_ids) ==
    f.ids

\* the first output of getdata(req) and the latest one
Outputs(o) == IF out = <<>> THEN <<o>> ELSE <<out[1], o>>

\* getdata with the arguments req; out keeps its first and its latest output
ReaderGetData ==
    /\ pc = "open"
    /\ \E g \in {GetDataRead(src, req, loc.pos)} :
          /\ out' = Outputs([result |-> g.result, elec_ids |-> g.elec_ids,
                             data |-> g.data, data_headers |-> g.data_headers])
          /\ loc' = ReaderLocals(g.pos, loc.pos, "getdata", TRUE, g.result,
                                 g.walked, g.BoH, g.walk_end)
          /\ src' = [src EXCEPT !.ids = ChannelIDAfterGetData(src, g.elec_ids)]
    /\ UNCHANGED <<req, pc>>

\* getdata with other arguments
ReaderGetDataOther ==
    /\ pc = "open"
    /\ \E r \in ReaderRequests \ {req} :
       \E g \in {GetDataRead(src, r, loc.pos)} :
            /\ loc' = ReaderLocals(g.pos, loc.pos, "getdata", FALSE, g.result,
                                   g.walked, g.BoH, g.walk_end)
            /\ src' = [src EXCEPT !.ids = ChannelIDAfterGetData(src, g.elec_ids)]
    /\ UNCHANGED <<req, pc, out>>

\* savesubsetnsx with any electrodes, the first subset file being absent or
\* its overwriting being allowed (overwrite) or refused
ReaderSaveSubset ==
    /\ pc = "open"
    /\ \E e \in ReaderElecs, overwrite \in BOOLEAN :
       \E s \in {SubsetRead(src, e, overwrite)} :
            loc' = ReaderLocals(s.pos, loc.pos, "savesubsetnsx", FALSE, s.result,
                                s.result # "None", s.BoH, s.pos)
    /\ UNCHANGED <<src, req, pc, out>>

NextReader == ReaderGetData \/ ReaderGetDataOther \/ ReaderSaveSubset

SpecReader == InitReader /\ [][NextReader]_vars

\* C12: on one open reader, every call of getdata with the same arguments
\* gives the same result (equal data arrays, equal data headers), whatever
\* getdata or savesubsetnsx calls were made before it or in between.
C12_GetDataIdempotent ==
    Len(out) = 2 => out[1] = out[2]

\* a repeated call that returned samples, made with the file position left
\* elsewhere than at the start of the data
C12_Witness ==
    /\ Len(out) = 2
    /\ loc.same
    /\ loc.from # BytesInHeader(src)
    /\ out[2].result = "returned"
    /\ out[2].data # <<>>
    /\ \E x \in DOMAIN out[2].data : out[2].data[x] # <<>>


(***************************************************************************)
(* savesubsetnsx: the overwrite question.                                  *)
(***************************************************************************)
\* C13: if the first subset file exists and the overwrite question is not
\* answered with 'y', savesubsetnsx opens no file for writing (nothing is
\* created, truncated or written) and does not return SUCCESS; a file is
\* opened for writing only when the first subset file is absent or the
\* answer is 'y'.
C13_OverwriteRefusal ==
    /\ (req.exists /\ req.answer # "y") => (out = <<>> /\ loc.result # "SUCCESS")
    /\ out # <<>> => (~req.exists \/ req.answer = "y")

\* the call returned after a refusal, the requested electrodes being in the
\* file
C13_Witness ==
    /\ pc = "done"
    /\ req.exists
    /\ req.answer = "n"
    /\ (req.elec.all \/ check_dataelecid(req.elec.list, src.ids) # <<>>)
    /\ loc.result = "None"
    /\ out = <<>>


(***************************************************************************)
(* savesubsetnsx: the size of the subset files.                            *)
(***************************************************************************)
\* C14: when file_size is given, no subset file is larger than file_size
\* (after check_filesize) when it is closed.
C14_ClosedFilesWithinFileSize ==
    (req.mode = "size" /\ loc.file_size > 0) =>
        \A i \in DOMAIN out : ~out[i].open => Tell(out[i]) <= loc.file_size


(***************************************************************************)
(* NevFile.getdata: the reconfig output.                                   *)
(***************************************************************************)
\* C15: for every CONFIGURATION packet, the ChangeType returned in the
\* reconfig output is the u16 stored at byte offset tsBytes + 2 of that
\* packet.
C15_ChangeTypeIsStoredField ==
    (NevReturned /\ out.reconfig.present) =>
        LET configPackets == PacketsWhere(src, {CONFIGURATION_PACKET_ID})
        IN /\ Len(out.reconfig.ChangeType) = Len(configPackets)
           /\ \A k \in DOMAIN configPackets :
                out.reconfig.ChangeType[k] = FieldAt(configPackets[k], tsBytes(src) + 2, 2)


(***************************************************************************)
(* One call on an open NSx file: savesubsetnsx, or getdata with the same   *)
(* elec_ids.                                                               *)
(***************************************************************************)
\* NsxFile.getdata (brpylib.py:1071-1402) with the elec_ids of req and the
\* other arguments at their defaults, zeropad apart
CallGetData ==
    /\ pc = "start"
    /\ \E z \in BOOLEAN :
         out' = GetDataOutput(src, [elec |-> req.elec, start |-> 0, dur |-> -1,
                                    downsample |-> 1, zeropad |-> z])
    /\ pc' = "done"
    /\ loc' = [loc EXCEPT !.result = "getdata"]
    /\ UNCHANGED <<src, req>>

NextCall == NextSubset \/ CallGetData

SpecCall == InitSubset /\ [][NextCall]_vars

\* C16: the electrode list a call works with is the ascending, duplicate-free
\* list of the requested ids that are channel ids of the file.  When none of
\* the requested ids exists, getdata returns an output with empty data and
\* savesubsetnsx returns None and has opened no file.
C16_ElectrodesPruned ==
    (~req.elec.all /\ pc # "start") =>
        LET wanted == Range(req.elec.list) \cap Range(src.ids)
            IsEffective(l) ==
                /\ Range(l) = wanted
                /\ \A i, j \in DOMAIN l : i < j => l[i] < l[j]
        IN IF loc.result = "getdata"
           THEN IF wanted = {}
                THEN out.result = "returned" /\ out.data = <<>>
                ELSE out.result = "returned" => IsEffective(out.elec_ids)
           ELSE IF wanted = {}
                THEN pc = "done" /\ loc.result = "None" /\ out = <<>>
                ELSE OverwriteRefused(req) \/ IsEffective(loc.elec_ids)

\* savesubsetnsx has written the subset for [3, 2], of which the file has
\* channel 2 only
C16_Witness ==
    /\ pc = "done"
    /\ req.elec.list = <<3, 2>>
    /\ src.ids = <<1, 2>>
    /\ loc.result = "SUCCESS"
    /\ loc.elec_ids = <<2>>
    /\ out # <<>>


(***************************************************************************)
(* savesubsetnsx: the files opened by a split.                             *)
(***************************************************************************)
\* C17: the packet header at the start of a subset file opened by a split
\* carries the timestamp of the source packet plus Period times the number
\* of rows of that packet written to the subset files before it.
C17_SplitTimestamp ==
    src.spec # "2.1" =>
        \A i \in DOMAIN out :
            (i > 1 /\ out[i].body # <<>> /\ out[i].body[1].kind = "H") =>
                LET p == out[i].body[1].p
                IN out[i].body[1].ts =
                       src.pkts[p].ts
                       + Len(RowsOf(AllItems(SubSeq(out, 1, i - 1)), p)) * src.period


\* C18: for a spec 2.2+ source, the header of every subset file (the first
\* and every one opened by a split) is the source's basic header with
\* BytesInHeader = 314 + 66 * N_sel and ChannelCount = N_sel, followed by the
\* extended headers of exactly the selected channels in the order of the
\* source; its length in bytes is the BytesInHeader it declares and it holds
\* as many extended headers as the ChannelCount it declares.
C18_SubsetFileHeaders ==
    src.spec # "2.1" =>
        \A i \in DOMAIN out :
            LET h == out[i].hdr
                selected == IF req.elec.all THEN Range(src.ids)
                            ELSE Range(req.elec.list) \cap Range(src.ids)
                N_sel == Cardinality(selected)
            IN /\ h.spec = src.spec
               /\ h.bih = NSX_BASIC_HEADER_BYTES_22 + NSX_EXT_HEADER_BYTES_22 * N_sel
               /\ h.cc = N_sel
               /\ Range(h.ids) = selected
               /\ \A a, b \in DOMAIN h.ids :
                    a < b => ListIndex(src.ids, h.ids[a]) < ListIndex(src.ids, h.ids[b])
               /\ HeaderBytes(h) = h.bih
               /\ Len(h.ids) = h.cc

\* a split has opened a second subset file for a source whose channels are
\* not in ascending order, a part of them being selected in another order
C18_Witness ==
    /\ src.spec = "2.3"
    /\ src.ids = <<2, 1>>
    /\ ~req.elec.all
    /\ Len(out) >= 2
    /\ out[2].hdr.ids = <<2, 1>>
    /\ out[2].body # <<>>


(***************************************************************************)
(* The packet walks of getdata and savesubsetnsx on the bytes.             *)
(***************************************************************************)
\* C19: the packet walk of a call, on a file of spec 2.2 or later, visits
\* the offsets of the file's data packet headers, one after the other, and
\* ends at the end of the file; this holds for getdata and for
\* savesubsetnsx, with 4-byte timestamps (2.3) and 8-byte ones (3.0).
C19_WalkLandsOnPacketHeaders ==
    (loc.walked /\ src.spec # "2.1") =>
        /\ loc.BoH = PacketOffsets(src)
        /\ loc.walk_end = FileSize(src)
        /\ loc.result \in {"returned", "SUCCESS"}


(***************************************************************************)
(* NsxFile.getdata with zeropad.                                           *)
(***************************************************************************)
\* C20: with zeropad, only the first returned segment is padded: rows of
\* zeros on every returned channel are put in front of it so that it starts
\* at time 0 (none when its timestamp is 0); every later segment is returned
\* with exactly its own NumDataPoints rows.
C20_ZeropadFirstSegmentOnly ==
    (GetDataReturned /\ req.zeropad /\ out.data # <<>>) =>
        LET padsize == CeilDiv(out.data_headers[1].Timestamp, src.period)
        IN /\ Len(out.data[1]) = out.data_headers[1].NumDataPoints + padsize
           /\ \A r \in 1..padsize :
                \A c \in DOMAIN out.data[1][r] : out.data[1][r][c] = ZeroSample
           /\ \A x \in DOMAIN out.data :
                x > 1 => Len(out.data[x]) = out.data_headers[x].NumDataPoints


(***************************************************************************)
(* NsxFile.getdata with downsample.                                        *)
(***************************************************************************)
\* C21: with downsample = n > 1, getdata returns for each segment the rows
\* 0, n, 2n, ... of the segment, ceil(N / n) rows for a segment of N rows.
C21_DownsampleEveryNth ==
    (GetDataReturned /\ req.downsample > 1 /\ req.elec.all /\ ~req.zeropad) =>
        \A x \in DOMAIN out.data :
            /\ Len(out.data[x]) = CeilDiv(src.pkts[x].n, req.downsample)
            /\ \A k \in DOMAIN out.data[x] :
                 \A c \in DOMAIN out.data[x][k] :
                    out.data[x][k][c] = <<x, (k - 1) * req.downsample, c - 1>>

(***************************************************************************)
(* NevFile.openfile, close and the with-block.  A NEV file is its          *)
(* FileSpec, the tags of its extended headers (NumExtendedHeaders of       *)
(* them), the u16 filter type its NEUEVFLT headers carry, and its size in  *)
(* bytes (a file cut short is smaller than its headers).  The state is the *)
(* read position, the handle and extended_headers (in out).                *)
(***************************************************************************)
MaxExtHdrs == 2

NO_FILTER == 0
BUTTER_FILTER == 1
WAVEFORM_SAMPLES_21 == 48

\* FieldDef(name, formatStr, formatFnc): formatStr stands as its calcsize
FieldDef(name, formatStr, formatFnc) == <<name, formatStr, formatFnc>>

\* the keys of nev_header_dict other than "basic"
NevTags ==
    {"ARRAYNME", "ECOMMENT", "CCOMMENT", "MAPFILE", "NEUEVWAV", "NEUEVLBL",
     "NEUEVFLT", "DIGLABEL", "NSASEXEV", "VIDEOSYN", "TRACKOBJ"}

\* nev_header_dict[key].  Most entries are a list of FieldDefs; ARRAYNME,
\* ECOMMENT, CCOMMENT and MAPFILE are one bare FieldDef (list = FALSE), and
\* chars is the number of characters of its name, the first item a loop over
\* the namedtuple yields.
nev_header_dict(key) ==
    CASE key = "basic" ->
           [list |-> TRUE, chars |-> 0, fields |->
             << FieldDef("FileTypeID", 8, "format_stripstring"),
                FieldDef("FileSpec", 2, "format_filespec"),
                FieldDef("AddFlags", 2, "format_none"),
                FieldDef("BytesInHeader", 4, "format_none"),
                FieldDef("BytesInDataPackets", 4, "format_none"),
                FieldDef("TimeStampResolution", 4, "format_none"),
                FieldDef("SampleTimeResolution", 4, "format_none"),
                FieldDef("TimeOrigin", 16, "format_timeorigin"),
                FieldDef("CreatingApplication", 32, "format_stripstring"),
                FieldDef("Comment", 256, "format_stripstring"),
                FieldDef("NumExtendedHeaders", 4, "format_none") >>]
      [] key = "ARRAYNME" ->
           [list |-> FALSE, chars |-> 9, fields |->
             << FieldDef("ArrayName", 24, "format_stripstring") >>]
      [] key = "ECOMMENT" ->
           [list |-> FALSE, chars |-> 12, fields |->
             << FieldDef("ExtraComment", 24, "format_stripstring") >>]
      [] key = "CCOMMENT" ->
           [list |-> FALSE, chars |-> 11, fields |->
             << FieldDef("ContComment", 24, "format_stripstring") >>]
      [] key = "MAPFILE" ->
           [list |-> FALSE, chars |-> 7, fields |->
             << FieldDef("MapFile", 24, "format_stripstring") >>]
      [] key = "NEUEVWAV" ->
           [list |-> TRUE, chars |-> 0, fields |->
             << FieldDef("ElectrodeID", 2, "format_none"),
                FieldDef("PhysicalConnector", 1, "format_charstring"),
                FieldDef("ConnectorPin", 1, "format_charstring"),
                FieldDef("DigitizationFactor", 2, "format_none"),
                FieldDef("EnergyThreshold", 2, "format_none"),
                FieldDef("HighThreshold", 2, "format_none"),
                FieldDef("LowThreshold", 2, "format_none"),
                FieldDef("NumSortedUnits", 1, "format_charstring"),
                FieldDef("BytesPerWaveform", 1, "format_charstring"),
                FieldDef("SpikeWidthSamples", 2, "format_none"),
                FieldDef("EmptyBytes", 8, "format_none") >>]
      [] key = "NEUEVLBL" ->
           [list |-> TRUE, chars |-> 0, fields |->
             << FieldDef("ElectrodeID", 2, "format_none"),
                FieldDef("Label", 16, "format_stripstring"),
                FieldDef("EmptyBytes", 6, "format_none") >>]
      [] key = "NEUEVFLT" ->
           [list |-> TRUE, chars |-> 0, fields |->
             << FieldDef("ElectrodeID", 2, "format_none"),
                FieldDef("HighFreqCorner", 4, "format_freq"),
                FieldDef("HighFreqOrder", 4, "format_none"),
                FieldDef("HighFreqType", 2, "format_filter"),
                FieldDef("LowFreqCorner", 4, "format_freq"),
                FieldDef("LowFreqOrder", 4, "format_none"),
                FieldDef("LowFreqType", 2, "format_filter"),
                FieldDef("EmptyBytes", 2, "format_none") >>]
      [] key = "DIGLABEL" ->
           [list |-> TRUE, chars |-> 0, fields |->
             << FieldDef("Label", 16, "format_stripstring"),
                FieldDef("Mode", 1, "format_digmode"),
                FieldDef("EmptyBytes", 7, "format_none") >>]
      [] key = "NSASEXEV" ->
           [list |-> TRUE, chars |-> 0, fields |->
             << FieldDef("Frequency", 2, "format_none"),
                FieldDef("DigitalInputConfig", 1, "format_digconfig"),
                FieldDef("AnalogCh1Config", 1, "format_anaconfig"),
                FieldDef("AnalogCh1DetectVal", 2, "format_none"),
                FieldDef("AnalogCh2Config", 1, "format_anaconfig"),
                FieldDef("AnalogCh2DetectVal", 2, "format_none"),
                FieldDef("AnalogCh3Config", 1, "format_anaconfig"),
                FieldDef("AnalogCh3DetectVal", 2, "format_none"),
                FieldDef("AnalogCh4Config", 1, "format_anaconfig"),
                FieldDef("AnalogCh4DetectVal", 2, "format_none"),
                FieldDef("AnalogCh5Config", 1, "format_anaconfig"),
                FieldDef("AnalogCh5DetectVal", 2, "format_none"),
                FieldDef("EmptyBytes", 6, "format_none") >>]
      [] key = "VIDEOSYN" ->
           [list |-> TRUE, chars |-> 0, fields |->
             << FieldDef("VideoSourceID", 2, "format_none"),
                FieldDef("VideoSource", 16, "format_stripstring"),
                FieldDef("FrameRate", 4, "format_none"),
                FieldDef("EmptyBytes", 2, "format_none") >>]
      [] key = "TRACKOBJ" ->
           [list |-> TRUE, chars |-> 0, fields |->
             << FieldDef("TrackableType", 2, "format_trackobjtype"),
                FieldDef("TrackableID", 4, "format_none"),
                FieldDef("VideoSource", 16, "format_stripstring"),
                FieldDef("EmptyBytes", 2, "format_none") >>]

\* format_filter: "None" is the value of a call that falls off the end of
\* the function
format_filter(filter_type) ==
    IF filter_type = NO_FILTER THEN "none"
    ELSE IF filter_type = BUTTER_FILTER THEN "butterworth"
    ELSE "None"

\* fun(data_iter) of one field: the filter fields decode the file's filter
\* type, every other field stands as the name of its formatting function
FormatField(curr_file, field) ==
    IF field[3] = "format_filter" THEN format_filter(curr_file.filt) ELSE field[3]

\* calcsize of the format string of a list of FieldDefs
calcsize(fields) == SumSeq([i \in DOMAIN fields |-> fields[i][2]])

\* processheaders(curr_file, packet_fields) with the file position pos:
\* "for name, fmt, fun in packet_fields" unpacks every item into three
\* names, read() returns the bytes the file still has, unpack wants all of
\* them.  The result is the error raised ("none" when it returns), the
\* position after the read and the (name, value) pairs of the dictionary.
processheaders(curr_file, pos, packet_fields) ==
    IF ~packet_fields.list
    THEN [error |-> IF packet_fields.chars # 3 THEN "ValueError" ELSE "TypeError",
          pos |-> pos, formatted |-> <<>>]
    ELSE LET fields == packet_fields.fields
             bytes_in_packet == calcsize(fields)
             got == Min(bytes_in_packet, Max(0, curr_file.size - pos))
         IN IF got < bytes_in_packet
            THEN [error |-> "struct.error", pos |-> pos + got, formatted |-> <<>>]
            ELSE [error |-> "none", pos |-> pos + got,
                  formatted |-> [i \in DOMAIN fields |->
                                   <<fields[i][1], FormatField(curr_file, fields[i])>>]]

\* the bytes of a complete header section with n extended headers of 32
\* bytes (the 8-byte tag and 24 more)
NevHeaderBytes(n) == calcsize(nev_header_dict("basic").fields) + 32 * n

NevSpecs == {"2.2", "2.3"}

RECURSIVE TagLists(_)
TagLists(n) ==
    IF n = 0 THEN {<<>>}
    ELSE TagLists(n - 1) \cup
         {Append(t, g) : t \in {u \in TagLists(n - 1) : Len(u) = n - 1},
                         g \in NevTags \cup {"UNKNOWN"}}

\* the sizes of a NEV file with the tags t: a complete one, and one cut
\* inside the basic header, before the last extended header or after its tag
NevFileSizes(t) ==
    {100, NevHeaderBytes(Len(t))} \cup
    (IF t = <<>> THEN {}
     ELSE {NevHeaderBytes(Len(t)) - 32, NevHeaderBytes(Len(t)) - 24})

OpenLocals(pos, handle, i, error, last) ==
    [pos |-> pos, handle |-> handle, i |-> i, error |-> error, last |-> last]

InitOpen ==
    /\ \E s \in NevSpecs, v \in 0..2 :
         \E t \in TagLists(MaxExtHdrs) :
            \E z \in NevFileSizes(t) :
               src = [spec |-> s, tags |-> t, filt |-> v, size |-> z]
    /\ req \in [with : BOOLEAN]
    /\ pc = "new"
    /\ out = <<>>
    /\ loc = OpenLocals(0, "none", 0, "none", "none")

\* NevFile.__init__ and openfile up to the loop: openfilecheck opens the
\* file, processheaders decodes the basic header
OpenFile ==
    /\ pc = "new"
    /\ \E h \in {processheaders(src, 0, nev_header_dict("basic"))} :
         /\ pc' = IF h.error = "none" THEN "headers" ELSE "failed"
         /\ loc' = OpenLocals(h.pos, "open", 0, h.error, "none")
    /\ UNCHANGED <<src, req, out>>

\* one pass of the loop over range(NumExtendedHeaders), and the return
\* after the last one
OpenHeader ==
    /\ pc = "headers"
    /\ IF loc.i = Len(src.tags)
       THEN /\ pc' = "opened"
            /\ UNCHANGED <<out, loc>>
       ELSE LET i == loc.i + 1
                got == Min(8, Max(0, src.size - loc.pos))
                PacketID == <<"PacketID", src.tags[i]>>
            IN IF got < 8
               THEN /\ pc' = "failed"
                    /\ out' = Append(out, <<>>)
                    /\ loc' = OpenLocals(loc.pos + got, loc.handle, i, "struct.error", "none")
               ELSE IF src.tags[i] \notin NevTags
               THEN /\ pc' = "failed"
                    /\ out' = Append(out, <<PacketID>>)
                    /\ loc' = OpenLocals(loc.pos + 8, loc.handle, i, "KeyError", "none")
               ELSE \E h \in {processheaders(src, loc.pos + 8, nev_header_dict(src.tags[i]))} :
                      /\ pc' = IF h.error = "none" THEN "headers" ELSE "failed"
                      /\ out' = Append(out,
                                  <<PacketID>> \o
                                  [k \in DOMAIN h.formatted |->
                                     IF /\ src.tags[i] = "NEUEVWAV"
                                        /\ src.spec \in {"2.1", "2.2"}
                                        /\ h.formatted[k][1] = "SpikeWidthSamples"
                                     THEN <<"SpikeWidthSamples", WAVEFORM_SAMPLES_21>>
                                     ELSE h.formatted[k]])
                      /\ loc' = OpenLocals(h.pos, loc.handle, i, h.error, "none")
    /\ UNCHANGED <<src, req>>

\* NevFile.close()
NevClose ==
    /\ pc = "opened"
    /\ ~req.with
    /\ pc' = "closed"
    /\ loc' = [loc EXCEPT !.handle = "closed"]
    /\ UNCHANGED <<src, req, out>>

\* __exit__ at the end of a with-block, left normally or by an exception
NevExit ==
    /\ pc = "opened"
    /\ req.with
    /\ \E raised \in BOOLEAN :
         /\ pc' = "closed"
         /\ loc' = [loc EXCEPT !.handle = "closed",
                               !.error = IF raised THEN "Exception" ELSE "none"]
    /\ UNCHANGED <<src, req, out>>

\* a method that reads the file (getdata): it reads through an open handle
\* and raises on a closed one
NevUse ==
    /\ pc \in {"opened", "closed"}
    /\ loc.last = "none"
    /\ loc' = [loc EXCEPT !.last = IF loc.handle = "open" THEN "read" ELSE "ValueError"]
    /\ UNCHANGED <<src, req, pc, out>>

NextOpen == OpenFile \/ OpenHeader \/ NevClose \/ NevExit \/ NevUse

SpecOpen == InitOpen /\ [][NextOpen]_vars

Opened == pc \in {"opened", "closed"}

\* C22: open decodes an extended header of every tag of the enumerated set;
\* after a successful open there are NumExtendedHeaders entries in file
\* order and the read position is 336 + 32 * NumExtendedHeaders; a tag
\* outside the set makes open fail.
C22_ExtendedHeadersDecoded ==
    /\ Opened =>
         /\ Len(out) = Len(src.tags)
         /\ \A i \in DOMAIN out : out[i][1] = <<"PacketID", src.tags[i]>>
         /\ loc.pos = 336 + 32 * Len(src.tags)
         /\ Range(src.tags) \subseteq NevTags
    /\ (pc = "failed" /\ src.size = NevHeaderBytes(Len(src.tags))) =>
         src.tags[loc.i] \notin NevTags


\* C23: the filter-type decoder maps 0 to "none" and 1 to "butterworth" and
\* rejects every other value: a header with another filter type makes the
\* decode fail, so no decoded header holds any other value in the field.
C23_FilterTypeRejected ==
    /\ format_filter(0) = "none"
    /\ format_filter(1) = "butterworth"
    /\ \A i \in DOMAIN out :
         \A k \in DOMAIN out[i] :
            out[i][k][1] \in {"HighFreqType", "LowFreqType"} =>
                out[i][k][2] \in {"none", "butterworth"}

\* C27: the source file handle is released on every exit path: after
\* close(), at the exit of a with-block, and when open fails after the file
\* was opened; after release no operation reads through the handle.
C27_HandleReleased ==
    /\ pc \in {"closed", "failed"} => loc.handle = "closed"
    /\ loc.last = "read" => loc.handle = "open"


(***************************************************************************)
(* NevFile.getdata: the comment texts.                                     *)
(***************************************************************************)
\* C24: each non-ROI COMMENT packet yields exactly one entry of
\* comments['Data'], equal to its comment bytes with the NULs removed; the
\* delimiter never matches a character of a packet's own text, so Data,
\* TimeStamps, TimeStampsStarted and CharSet have the same length and entry
\* k of each belongs to the same packet.
C24_CommentDataAligned ==
    (NevReturned /\ out.comments.present) =>
        LET c == out.comments
        IN /\ Len(c.Data) = Len(TextCommentPackets)
           /\ Len(c.Data) = Len(c.TimeStamps)
           /\ Len(c.TimeStampsStarted) = Len(c.TimeStamps)
           /\ Len(c.CharSet) = Len(c.TimeStamps)
           /\ \A k \in DOMAIN c.Data :
                k \in DOMAIN c.TimeStamps =>
                    c.Data[k] = SelectSeq(src.pkts[c.TimeStamps[k] \div 10].text,
                                          LAMBDA b : b # NUL)


C26_SplitsMakeProgress ==
    /\ (pc = "split" /\ loc.pts_can_add < loc.num_pts) => loc.pts_can_add >= 0
    /\ \A k \in 1..(Len(out) - 1) :
         \E i \in DOMAIN out[k].body :
            out[k].body[i].kind = "R" /\ out[k].body[i].to > out[k].body[i].from


(***************************************************************************)
(* The headers of an open reader.  Calls are made on an open NsxFile       *)
(* (getdata, savesubsetnsx, in any sequence) or on an open NevFile         *)
(* (getdata); src holds the headers and the bytes of the source file.      *)
(***************************************************************************)
InitHeaders == InitReader \/ InitNev

NextHeaders == NextReader \/ NextNev

SpecHeaders == InitHeaders /\ [][NextHeaders]_vars

\* C28: headers are immutable after open: no sequence of NevFile.getdata,
\* NsxFile.getdata and NsxFile.savesubsetnsx calls changes basic_header or
\* extended_headers of the reader (the spec 2.1 ChannelID list handed out as
\* output['elec_ids'] included), and none of them writes to the source file.
C28_HeadersImmutable ==
    [][src' = src]_vars

\* a spec 2.1 reader with two channels on which getdata returned the
\* header's ChannelID list as output['elec_ids'] and savesubsetnsx followed
C28_Witness ==
    /\ pc = "open"
    /\ src.spec = "2.1"
    /\ Len(src.ids) = 2
    /\ Len(out) = 2
    /\ out[1].result = "returned"
    /\ out[1].elec_ids = src.ids
    /\ loc.method = "savesubsetnsx"


(***************************************************************************)
(* savesubsetnsx: the channel a column belongs to.                         *)
(***************************************************************************)
\* C29: in every output file, the channel named by the i-th extended header
\* (spec 2.2+) or by the i-th channel id of the basic header (spec 2.1) is
\* the channel whose source samples fill column i of the file's data.
C29_HeaderNamesColumn ==
    \A k \in DOMAIN out :
        \A j \in DOMAIN out[k].body :
            out[k].body[j].kind = "R" =>
                /\ Len(out[k].body[j].cols) = Len(out[k].hdr.ids)
                /\ \A i \in DOMAIN out[k].hdr.ids :
                     ColumnIs(out[k].body[j], i, out[k].hdr.ids[i])


(***************************************************************************)
(* openfilecheck (build/lib/brpylib/brMiscFxns.py:31-97), one action for   *)
(* each pass of its `while True` loop.  src is the environment (the files  *)
(* that exist, whether Qt is installed), req the arguments, loc the        *)
(* current file_name with the passes made and the prompts shown.           *)
(***************************************************************************)
MaxPasses == 3

FileNames == {"a.nev", "b.ns5", "c.nev"}

\* path.splitext(file_name)[1], as characters
SplitExt(file_name) ==
    IF file_name = "b.ns5" THEN <<".", "n", "s", "5">> ELSE <<".", "n", "e", "v">>

\* the file_ext arguments, as characters: none, '.nev', '.ns*'
FileExts == {<<>>, <<".", "n", "e", "v">>, <<".", "n", "s", "*">>}

\* brMiscFxns.py:70-79: the extension of the file starts with file_ext (with
\* a final * taken off)
ExtensionFits(file_name, file_ext) ==
    LET test_extension == IF file_ext[Len(file_ext)] = "*"
                          THEN SubSeq(file_ext, 1, Len(file_ext) - 1)
                          ELSE file_ext
    IN SubSeq(SplitExt(file_name), 1, Len(test_extension)) = test_extension

InitCheck ==
    /\ src \in [isfile : SUBSET FileNames, HAS_QT : BOOLEAN]
    /\ req \in [file_name : FileNames \cup {""}, file_ext : FileExts,
                interactive : BOOLEAN, verbose : BOOLEAN]
    /\ pc = "while"
    /\ out = [result |-> "running", file |-> ""]
    /\ loc = [file_name |-> req.file_name, passes |-> 0, prompts |-> 0]

\* one pass of the loop: the prompt and the dialog (typed, picked: what the
\* user enters and selects), the test of the file and of its extension, and
\* the return of the opened file after a break
CheckPass ==
    /\ pc = "while"
    /\ loc.passes < MaxPasses
    /\ LET ask == req.interactive /\ loc.file_name = ""
       IN IF ask /\ ~src.HAS_QT
          THEN /\ pc' = "done"
               /\ out' = [result |-> "ModuleNotFoundError", file |-> ""]
               /\ loc' = [loc EXCEPT !.passes = @ + 1]
          ELSE \E typed \in FileNames \cup {""}, picked \in FileNames \cup {""} :
                 LET file_name == IF ~ask THEN loc.file_name
                                  ELSE IF typed # "" THEN typed ELSE picked
                     prompts == IF ask THEN loc.prompts + 1 ELSE loc.prompts
                 IN IF file_name \in src.isfile
                    THEN IF /\ req.file_ext # <<>>
                            /\ ~ExtensionFits(file_name, req.file_ext)
                            /\ req.interactive
                         THEN /\ pc' = "while"
                              /\ out' = out
                              /\ loc' = [file_name |-> "", passes |-> loc.passes + 1,
                                         prompts |-> prompts]
                         ELSE /\ pc' = "done"
                              /\ out' = [result |-> "returned", file |-> file_name]
                              /\ loc' = [file_name |-> file_name,
                                         passes |-> loc.passes + 1, prompts |-> prompts]
                    ELSE /\ pc' = "while"
                         /\ out' = out
                         /\ loc' = [file_name |-> "", passes |-> loc.passes + 1,
                                    prompts |-> prompts]
    /\ UNCHANGED <<src, req>>

NextCheck == CheckPass

SpecCheck == InitCheck /\ [][NextCheck]_vars

\* C30: openfilecheck with interactive=False never prompts and always
\* terminates: it makes one pass, after which it has failed (raised) when
\* the path is empty or names no existing file, and has returned the opened
\* file when the path exists; it never retries.
C30_NonInteractiveNeverRetries ==
    (~req.interactive /\ loc.passes >= 1) =>
        /\ loc.prompts = 0
        /\ pc = "done"
        /\ IF req.file_name \in src.isfile
           THEN out = [result |-> "returned", file |-> req.file_name]
           ELSE out.result \notin {"running", "returned"}
====
